---- MODULE Spec2Model ----
(***************************************************************************)
(* The checkpointed, resumable provisioning orchestrator of the           *)
(* openclaw-droplet rig: the local installers (install.ps1 and the bash    *)
(* install.sh), the remote droplet-setup.sh they run over SSH, and the     *)
(* two checkpoint files they keep.                                         *)
(*                                                                         *)
(* Timestamps are left out of the checkpoint records: no step reads them.  *)
(***************************************************************************)
EXTENDS Naturals, Integers, FiniteSets, Sequences, TLC

VARIABLES
    installer,  \* which local installer this operator machine runs: "ps1" | "sh"
    lfile,      \* the local checkpoint file ($CheckpointFile / $CHECKPOINT_FILE)
    rfile,      \* the droplet's checkpoint file /tmp/openclaw-setup-checkpoint
    script,     \* the droplet's /tmp/openclaw-setup.sh: "absent" | "fresh" | "empty"
    droplets,   \* how many droplets `doctl compute droplet create` has created
    apt,        \* the droplet's system state: Cloud SDK apt source lines, gcloud, swap
    db,         \* the website's database: table rigs, its id sequence, its clock
    web,        \* the website's requests and seed runs in progress
    igor,       \* a run of an Igor installer and the target repository's label
    loc,        \* per invocation slot: the local installer process
    rem         \* per invocation slot: the remote script run in its SSH session

vars ==
    <<installer, lfile, rfile, script, droplets, apt, db, web, igor, loc, rem>>

(***************************************************************************)
(* Bounds.                                                                 *)
(***************************************************************************)
\* Droplets the DigitalOcean account may come to hold.
MaxDroplets == 2

\* Cloud SDK lines the droplet's google-cloud-sdk.list may come to hold.
MaxSdkLines == 2

\* The most /swapfile lines /etc/fstab is let to hold.
MaxFstab == 2

\* Invocation slots: two, so that a second invocation can overlap the first.
Procs == {1, 2}

(***************************************************************************)
(* Program constants.                                                      *)
(***************************************************************************)
\* install.ps1: $maxAttempts of the wait-for-SSH loop.
maxAttempts == 30

\* The last step of each script.
PsLastStep == 6
ShLastStep == 5
RemoteLastStep == 10

LastStep(inst) == IF inst = "ps1" THEN PsLastStep ELSE ShLastStep

(***************************************************************************)
(* Values.                                                                 *)
(***************************************************************************)
\* The k-th created droplet, as doctl reports it (ID, Name, PublicIPv4).
IdOf(k) == "d" \o ToString(k)
IPOf(k) == "ip" \o ToString(k)
NameOf(k) == "openclaw" \o ToString(k)

\* An address the operator types in by hand; "" is an empty answer.
ManualIPs == {"", "ipX"}
\* What the operator may answer at "SSH username (default: root)".
UserInputs == {"", "bob"}

\* What `timeout 30 openclaw agent -m "Say hello in exactly 3 words"` may print:
\* nothing, a greeting, the shell's `Killed` of a run cut short, an error.
TestResults == {"", "Hello to you", "Killed", "Error: 401"}
\* What the operator may type at step 10's "Enter choice (1-4)": nothing,
\* WhatsApp, Telegram, Gmail, skip, and a number that is not on the menu.
ChannelInputs == {"", "1", "2", "3", "4", "7"}
\* What the operator may type at setup-channels.sh's "Choice (1-5)": Telegram,
\* all channels, exit, and a number that is not on the menu.
SetupChoices == {"2", "4", "5", "7"}
\* The outputs that hold the word error or Error.
SaysError == {"Error: 401"}
SaysLowerError == {}

\* Values typed at secret prompts (Tailscale auth key, Telegram bot token).
TsKeys == {"tskey-A", "tskey-B"}
TgTokens == {"tgtoken-A"}
Secrets == TsKeys \cup TgTokens

(***************************************************************************)
(* Checkpoint file contents.                                               *)
(*   kind "absent"  no file                                                *)
(*        "empty"   a zero-length file (a write cut after the truncation)  *)
(*        "garbage" text that is neither JSON nor shell assignments        *)
(*        "json"    install.ps1's record                                   *)
(*        "env"     install.sh's record, of which `lines` lines are written*)
(*        "nostep"  a well-formed record without a step field  ({} )       *)
(*        "text"    droplet-setup.sh's file: the step as text              *)
(*   stepKind "num" a number; "word" a non-numeric word such as abc;       *)
(*            "frac" text such as 1.5 that is no arithmetic expression     *)
(***************************************************************************)
File(kind, stepKind, step, ip, user, id, name, lines) ==
    [kind |-> kind, stepKind |-> stepKind, Step |-> step, DropletIP |-> ip,
     SSHUser |-> user, DropletId |-> id, DropletName |-> name, lines |-> lines]

Absent == File("absent", "num", 0, "", "", "", "", 0)
Empty == File("empty", "num", 0, "", "", "", "", 0)
Garbage == File("garbage", "num", 0, "", "", "", "", 0)
NoStep == File("nostep", "num", 0, "", "", "", "", 0)

(***************************************************************************)
(* Checkpoint functions of the local installers.                            *)
(***************************************************************************)
\* install.ps1 Save-Checkpoint: the record ConvertTo-Json writes.
SaveCheckpoint(Step, DropletIP, SSHUser, DropletId, DropletName) ==
    File("json", "num", Step, DropletIP, SSHUser, DropletId, DropletName, 0)

\* install.sh save_checkpoint: STEP, DROPLET_IP, SSH_USER and TIMESTAMP lines.
save_checkpoint(step, droplet_ip, ssh_user) ==
    File("env", "num", step, droplet_ip, ssh_user, "", "", 4)

\* install.sh's file when only the first k echo lines of a save were written.
ShCut(rec, k) ==
    File("env", "num", rec.Step,
         IF k >= 2 THEN rec.DropletIP ELSE "",
         IF k >= 3 THEN rec.SSHUser ELSE "", "", "", k)

\* What a kill inside a save leaves in the file. Set-Content truncates the file
\* and then writes it; save_checkpoint truncates with > and appends with >>.
TornSaves(inst, rec) ==
    IF inst = "ps1" THEN {Empty}
    ELSE {Empty} \cup {ShCut(rec, k) : k \in 1..3}

\* The file holds a step number that a load reads back.
HasStep(f) == f.kind \in {"json", "env", "text"} /\ f.stepKind = "num"

\* The script variables after install.ps1's Load-Checkpoint and lines 110-115.
\* A missing property of the parsed object reads as $null: "" here, and a
\* $null step compares like 0.
LoadCheckpoint(f) ==
    IF f.kind \in {"json", "nostep"}
    THEN [abort |-> FALSE, stepKind |-> f.stepKind, CurrentStep |-> f.Step,
          DropletIP |-> f.DropletIP, SSHUser |-> f.SSHUser,
          DropletId |-> f.DropletId, DropletName |-> f.DropletName]
    ELSE [abort |-> FALSE, stepKind |-> "num", CurrentStep |-> 0,
          DropletIP |-> "", SSHUser |-> "root",
          DropletId |-> "", DropletName |-> ""]

\* The script variables after install.sh's load_checkpoint and
\* load_checkpoint_vars: the file is sourced, under set -e.
load_checkpoint(f) ==
    CASE f.kind = "garbage" ->
            [abort |-> TRUE, stepKind |-> "num", CurrentStep |-> 0,
             DropletIP |-> "", SSHUser |-> "root",
             DropletId |-> "", DropletName |-> ""]
      [] f.kind \in {"env", "nostep"} ->
            [abort |-> FALSE, stepKind |-> f.stepKind, CurrentStep |-> f.Step,
             DropletIP |-> f.DropletIP,
             SSHUser |-> IF f.SSHUser = "" THEN "root" ELSE f.SSHUser,
             DropletId |-> "", DropletName |-> ""]
      [] OTHER ->
            [abort |-> FALSE, stepKind |-> "num", CurrentStep |-> 0,
             DropletIP |-> "", SSHUser |-> "root",
             DropletId |-> "", DropletName |-> ""]

Load(inst, f) == IF inst = "ps1" THEN LoadCheckpoint(f) ELSE load_checkpoint(f)

\* A reset that would leave the file in place.
ResetKeepsFile(reset, f) == f

\* The file after the reset handling at the start of a script: Clear-Checkpoint
\* / clear_checkpoint when the flag is given.
ResetFile(reset, f) == IF reset THEN Absent ELSE f

(***************************************************************************)
(* The local installer process.                                            *)
(*   narr    the step headers printed so far by this invocation            *)
(*   warn    the warnings and failures printed so far by this invocation   *)
(*   loaded  the step the invocation resumed from                          *)
(*   exit    "none" while running or never run; "0", "1", "127", "killed"  *)
(*   Reset   the -Reset / --reset flag of the running invocation            *)
(*   probe   while the wait-for-SSH loop runs, what its last probe met      *)
(***************************************************************************)
LocOff ==
    [pc |-> "off", CurrentStep |-> 0, stepKind |-> "num", DropletIP |-> "",
     SSHUser |-> "root", DropletId |-> "", DropletName |-> "", attempt |-> 0,
     sshExitCode |-> "0", narr |-> {}, warn |-> {}, loaded |-> 0,
     loadedKind |-> "num", banner |-> FALSE, exit |-> "none", Reset |-> FALSE,
     probe |-> "none"]

\* The process gone: its variables are lost, what it printed stays.
Ended(r, code) ==
    [LocOff EXCEPT !.narr = r.narr, !.warn = r.warn, !.loaded = r.loaded,
                   !.loadedKind = r.loadedKind, !.banner = r.banner,
                   !.sshExitCode = r.sshExitCode, !.exit = code]

\* A step's guard: [[ "$CURRENT_STEP" -lt k ]] / ($CurrentStep -lt k).
\* PowerShell compares a non-numeric string with k as strings: never less.
\* In bash a text such as 1.5 makes [[ -lt ]] fail with a syntax error: the
\* guard is false.
\* The guard as it would be with -le: a resumed run enters the step it
\* resumed from.
StepLe(r, k) == r.stepKind = "num" /\ r.CurrentStep <= k
StepLt(r, k) == r.stepKind = "num" /\ r.CurrentStep < k

\* bash evaluates a non-numeric word in -lt as an unset variable: under set -u
\* the script ends there.
GuardAborts(r) == r.stepKind = "word"

SetLoc(p, r) == loc' = [loc EXCEPT ![p] = r]

\* A step that goes on without its save having written the file.
CommitUnsaved(p, rec, next) ==
    /\ lfile' = lfile
    /\ SetLoc(p, next)

\* A checkpoint save at the end of a step: it returns, or the process is killed
\* inside it.
Commit(p, rec, next) ==
    \/ /\ lfile' = rec
       /\ SetLoc(p, next)
    \/ \E t \in TornSaves(installer, rec) :
          /\ lfile' = t
          /\ SetLoc(p, Ended(next, "killed"))

\* A save that leaves the droplet out of the record.
PsRecNoDroplet(step, r) == SaveCheckpoint(step, "", r.SSHUser, "", "")

\* A save that from step 3 on passes the step alone, as line 253 does.
PsRecStepOnly(step, r) ==
    IF step >= 3 THEN SaveCheckpoint(step, "", "root", "", "")
    ELSE SaveCheckpoint(step, r.DropletIP, r.SSHUser, r.DropletId,
                        r.DropletName)

\* The record a save of `step` writes from the process's variables.
PsRec(step, r) ==
    SaveCheckpoint(step, r.DropletIP, r.SSHUser, r.DropletId, r.DropletName)
ShRec(step, r) == save_checkpoint(step, r.DropletIP, r.SSHUser)

(***************************************************************************)
(* The channel part of remote step 10 (droplet-setup.sh lines 445-946).    *)
(*   OK       the channels whose *_OK variable was set to true              *)
(*   okLines  the channels for which an OK "... configured" line was        *)
(*            printed                                                       *)
(*   failed   the channels whose configure command exited with a failure    *)
(*   gsteps   the Gmail sub-steps ([Step n/6]) that were begun              *)
(*   gauth    gcloud authentication: "none" (not reached), "already", "ok", *)
(*            "fail"                                                        *)
(*   calls    how often `openclaw webhooks gmail setup` was invoked         *)
(*   children (setup-channels.sh, choice 4) the menu answers of the child   *)
(*            runs that were started                                        *)
(***************************************************************************)
NoChan ==
    [OK |-> {}, okLines |-> {}, failed |-> {}, gsteps |-> {}, gauth |-> "none",
     calls |-> 0, children |-> {}]

\* Lines 445-465: WhatsApp. login: `openclaw channels login` exited with 0.
WhatsAppSetup(wa_ready, login) ==
    IF wa_ready # "y" THEN NoChan
    ELSE IF login THEN [NoChan EXCEPT !.OK = {"WhatsApp"}]
    ELSE [NoChan EXCEPT !.failed = {"WhatsApp"}]

\* Lines 467-491: Telegram. added: `openclaw channels add` exited with 0. The
\* OK line is printed after the if, whatever the command's status.
TelegramSetup(tg_token, added) ==
    IF tg_token = "" THEN NoChan
    ELSE [NoChan EXCEPT !.OK = IF added THEN {"Telegram"} ELSE {},
                        !.failed = IF added THEN {} ELSE {"Telegram"},
                        !.okLines = {"Telegram"}]

\* Lines 500-858: the Gmail sub-steps begun before the webhook setup. Without
\* a Tailscale connection the rest of the block is not entered (line 542); a
\* failed `gcloud auth login` prints a warning and the block goes on.
GmailBegun(connected, gauth) ==
    IF ~connected THEN {1} ELSE {1, 2, 3, 4, 5}

\* Lines 874-939: the invocations of `openclaw webhooks gmail setup`. With a
\* project id, a failed invocation is followed by a second one whose output is
\* captured for the hint about Funnel (line 904).
SetupCalls(project, setup) == IF project /\ ~setup THEN 2 ELSE 1

\* Lines 493-946: Gmail.
\*   connected  Tailscale is connected at line 542
\*   gauth      "already", "ok" or "fail" (lines 547-575)
\*   funnel     "ok", "enter" or "skip" at the Funnel check (lines 822-846)
\*   project    a GCP project id is known at line 853-861
\*   setup      the first `openclaw webhooks gmail setup` exited with 0
GmailSetup(connected, gauth, funnel, project, setup) ==
    LET begun == GmailBegun(connected, gauth)
        g == [NoChan EXCEPT !.gsteps = begun,
                            !.gauth = IF 2 \in begun THEN gauth ELSE "none"]
    IN IF 5 \notin begun \/ funnel = "skip" THEN g
       ELSE [g EXCEPT !.gsteps = @ \cup {6},
                      !.calls = SetupCalls(project, setup),
                      !.OK = IF setup THEN {"Gmail"} ELSE {},
                      !.okLines = IF setup THEN {"Gmail"} ELSE {},
                      !.failed = IF setup THEN {} ELSE {"Gmail"}]

\* What the channel part may do for an answer at "Enter choice (1-4)" and a
\* Telegram token.
ChanOutcomes(choice, token) ==
    CASE choice = "1" ->
            {WhatsAppSetup(w, l) : w \in {"y", "n"}, l \in BOOLEAN}
      [] choice = "2" -> {TelegramSetup(token, a) : a \in BOOLEAN}
      [] choice = "3" ->
            {GmailSetup(c, a, f, pr, su) :
                c \in BOOLEAN, a \in {"already", "ok", "fail"},
                f \in {"ok", "enter", "skip"}, pr \in BOOLEAN, su \in BOOLEAN}
      [] OTHER -> {NoChan}

\* Lines 959-968: the channels of the closing summary.
CONFIGURED_LIST(r) == r.chan.OK


(***************************************************************************)
(* The remote script's process (one SSH session per local invocation).     *)
(*   prog    the script run in the session: droplet-setup.sh or             *)
(*           setup-channels.sh                                              *)
(*   channel_choices  the answer step 10 went on with; "unset" before it   *)
(*   chan    what the channel part of step 10 did (see NoChan)              *)
(*   found   the pre-checks that reported their goal state in the step last *)
(*           executed (its "already installed" lines)                       *)
(*   ran     the installing or configuring commands that step invoked       *)
(*   TEST_RESULT  the smoke test's output, from step 9 until step 10 ran    *)
(*   ts_key  "unset" until the auth key prompt is answered; "" once it is   *)
(*           answered with Enter alone                                      *)
(***************************************************************************)
RemOff ==
    [pc |-> "off", CURRENT_STEP |-> 0, stepKind |-> "num", ts_key |-> "unset",
     tg_token |-> "", exit |-> "none", reset |-> FALSE,
     TEST_RESULT |-> "unset", found |-> {}, ran |-> {},
     channel_choices |-> "unset", prog |-> "droplet-setup.sh",
     chan |-> NoChan]

REnded(code) == [RemOff EXCEPT !.exit = code]


(***************************************************************************)
(* Checkpoint functions of droplet-setup.sh. The file holds the step as text.*)
(***************************************************************************)
\* save_checkpoint: echo "$1" > "$CHECKPOINT_FILE".
\* A save that would write the shell's variables beside the step: the
\* Tailscale key in hand goes to the file.
remote_save_checkpoint_env(step) ==
    File("text", "num", step,
         IF \E p \in Procs : rem[p].ts_key \in TsKeys
         THEN rem[CHOOSE p \in Procs : rem[p].ts_key \in TsKeys].ts_key ELSE "",
         "", "", "", 1)

remote_save_checkpoint(step) == File("text", "num", step, "", "", "", "", 1)

\* load_checkpoint: the file's text, or 0 without a file. An empty text
\* compares like 0 in [[ -lt ]].
remote_load_checkpoint(f) ==
    IF f.kind = "text" THEN [kind |-> f.stepKind, step |-> f.Step]
    ELSE [kind |-> "num", step |-> 0]

(***************************************************************************)
(* The remote script's start: droplet-setup.sh lines 67-85, run by          *)
(* `ssh -t ... "bash /tmp/openclaw-setup.sh"` (never with --reset).         *)
(* An empty script file runs nothing and exits 0; without the file bash     *)
(* exits 127; a connection that cannot be made is ssh's 255.                *)
(***************************************************************************)
RemoteLaunch(ip) ==
    CASE ip = "" -> {REnded("255")}
      [] script = "absent" -> {REnded("127"), REnded("255")}
      [] script = "empty" -> {REnded("0"), REnded("255")}
      [] OTHER ->
            {REnded("255"),
             [RemOff EXCEPT !.pc = "r1",
                            !.CURRENT_STEP = remote_load_checkpoint(rfile).step,
                            !.stepKind = remote_load_checkpoint(rfile).kind]}

(***************************************************************************)
(* install.ps1                                                             *)
(***************************************************************************)
\* Lines 103-137: -Reset handling and Load-Checkpoint.
PsStart(p, reset) ==
    /\ installer = "ps1"
    /\ loc[p].pc = "off"
    /\ LET f == ResetFile(reset, lfile)
           ld == LoadCheckpoint(f)
       IN /\ lfile' = f
          /\ SetLoc(p, [LocOff EXCEPT !.pc = "s1",
                                      !.CurrentStep = ld.CurrentStep,
                                      !.stepKind = ld.stepKind,
                                      !.DropletIP = ld.DropletIP,
                                      !.SSHUser = ld.SSHUser,
                                      !.DropletId = ld.DropletId,
                                      !.DropletName = ld.DropletName,
                                      !.loaded = ld.CurrentStep,
                                      !.loadedKind = ld.stepKind,
                                      !.Reset = reset])
    /\ UNCHANGED <<igor, db, web, apt, installer, rfile, script, droplets, rem>>

\* Lines 142-255, step 1: local prerequisites. outcome: "ok", "fail" (no ssh:
\* exit 1) or "decline" (no gcloud and the operator does not continue: exit 0).
PsStep1(p, outcome) ==
    /\ installer = "ps1"
    /\ loc[p].pc = "s1"
    /\ LET r == loc[p]
           b == [r EXCEPT !.narr = @ \cup {1}]
       IN IF ~StepLt(r, 1)
          THEN /\ outcome = "ok"
               /\ SetLoc(p, [r EXCEPT !.pc = "s2"])
               /\ UNCHANGED lfile
          ELSE CASE outcome = "fail" ->
                       SetLoc(p, Ended(b, "1")) /\ UNCHANGED lfile
                 [] outcome = "decline" ->
                       SetLoc(p, Ended(b, "0")) /\ UNCHANGED lfile
                 [] OTHER ->
                       Commit(p, SaveCheckpoint(1, "", "root", "", ""),
                              [b EXCEPT !.pc = "s2", !.CurrentStep = 1,
                                        !.stepKind = "num"])
    /\ UNCHANGED <<igor, db, web, apt, installer, rfile, script, droplets, rem>>

\* Lines 286-676: resolving the droplet when none is reused. path:
\*   "abort"   an exit 1 before a droplet exists (no key, failed create, no
\*             IP address given)
\*   "invalid" a number that is not on the list typed at "Select SSH key
\*             number", "Select region number" or "Select droplet number":
\*             Write-Fail "Invalid selection"; exit 1 (lines 460-463, 495-498,
\*             636-639)
\*   "create"  doctl compute droplet create succeeded (lines 515-537)
\*   "pick"    droplet k chosen from doctl's list (lines 629-635)
\*   "manual"  an address typed in, doctl present (lines 625-628, 643, 649)
\*   "nodoctl" an address and a user name typed in (lines 664-674)
PsResolve(p, b, path, k, user) ==
    CASE path = "abort" ->
            /\ SetLoc(p, Ended(b, "1"))
            /\ UNCHANGED <<lfile, droplets>>
      [] path = "invalid" ->
            /\ SetLoc(p, Ended([b EXCEPT !.warn = @ \cup {"invalid"}], "1"))
            /\ UNCHANGED <<lfile, droplets>>
      [] path = "create" ->
            /\ droplets < MaxDroplets
            /\ droplets' = droplets + 1
            /\ SetLoc(p, [b EXCEPT !.pc = "s2created",
                                   !.DropletName = NameOf(droplets + 1),
                                   !.DropletId = IdOf(droplets + 1),
                                   !.DropletIP = IPOf(droplets + 1)])
            /\ UNCHANGED lfile
      [] path = "pick" ->
            /\ k \in 1..droplets
            /\ UNCHANGED droplets
            /\ LET c == [b EXCEPT !.DropletIP = IPOf(k), !.DropletId = IdOf(k),
                                  !.DropletName = NameOf(k), !.SSHUser = "root"]
               IN Commit(p, PsRec(2, c),
                         [c EXCEPT !.pc = "s3", !.CurrentStep = 2,
                                   !.stepKind = "num"])
      [] path = "manual" ->
            /\ UNCHANGED droplets
            /\ LET c == [b EXCEPT !.DropletIP = "ipX", !.SSHUser = "root"]
               IN Commit(p, PsRec(2, c),
                         [c EXCEPT !.pc = "s3", !.CurrentStep = 2,
                                   !.stepKind = "num"])
      [] OTHER ->
            /\ UNCHANGED droplets
            /\ LET c == [b EXCEPT !.DropletIP = "ipX",
                                  !.SSHUser = IF user = "" THEN @ ELSE user]
               IN Commit(p, PsRec(2, c),
                         [c EXCEPT !.pc = "s3", !.CurrentStep = 2,
                                   !.stepKind = "num"])

\* Lines 260-680, step 2, up to the droplet's creation or to the save of step 2.
\* useExisting answers "Use this droplet? (y/n)" when a droplet is offered.
PsStep2(p, useExisting, path, k, user) ==
    /\ installer = "ps1"
    /\ loc[p].pc = "s2"
    /\ LET r == loc[p]
           b == [r EXCEPT !.narr = @ \cup {2}]
           offered == r.DropletIP # "" /\ r.DropletId # ""
       IN IF ~StepLt(r, 2)
          THEN /\ path = "abort" /\ k = 1 /\ user = ""
               /\ SetLoc(p, [r EXCEPT !.pc = "s3"])
               /\ UNCHANGED <<lfile, droplets>>
          ELSE IF offered /\ useExisting = "y"
          THEN /\ path = "abort" /\ k = 1 /\ user = ""
               /\ UNCHANGED droplets
               /\ LET c == [b EXCEPT !.SSHUser = "root"]
                  IN Commit(p, PsRec(2, c),
                            [c EXCEPT !.pc = "s3", !.CurrentStep = 2,
                                      !.stepKind = "num"])
          ELSE IF offered
          THEN PsResolve(p, [b EXCEPT !.DropletIP = "", !.DropletId = "",
                                      !.DropletName = ""], path, k, user)
          ELSE PsResolve(p, b, path, k, user)
    /\ UNCHANGED <<igor, db, web, apt, installer, rfile, script, rem>>

\* Lines 539-542: the save right after the droplet's creation.
PsSaveCreated(p) ==
    /\ installer = "ps1"
    /\ loc[p].pc = "s2created"
    /\ LET c == [loc[p] EXCEPT !.SSHUser = "root"]
       IN Commit(p, PsRec(1, c), [c EXCEPT !.pc = "s2wait", !.attempt = 0])
    /\ UNCHANGED <<igor, db, web, apt, installer, rfile, script, droplets, rem>>

\* What a probe `ssh -o BatchMode=yes root@ip "echo ready"` may meet: the
\* answer ready with status 0, a host that does not answer yet (status 255,
\* connection refused or timed out), a host that rejects the key (status 255,
\* Permission denied).
ProbeResults == {"ready", "unreachable", "rejected"}

\* Lines 551-578 and 678-679: one probe of the wait-for-SSH loop. Every probe
\* that is not ready prints "Not yet" and the loop goes round again; the last
\* failed probe saves step 1 again and exits 1; a successful one ends step 2.
PsWaitSsh(p, probe) ==
    /\ installer = "ps1"
    /\ loc[p].pc = "s2wait"
    /\ loc[p].attempt < maxAttempts
    /\ LET r == [loc[p] EXCEPT !.attempt = @ + 1, !.probe = probe]
       IN IF probe = "ready"
          THEN Commit(p, PsRec(2, r),
                      [r EXCEPT !.pc = "s3", !.CurrentStep = 2,
                                !.stepKind = "num", !.attempt = 0,
                                !.probe = "none"])
          ELSE IF r.attempt < maxAttempts
          THEN SetLoc(p, r) /\ UNCHANGED lfile
          ELSE Commit(p, PsRec(1, r), Ended(r, "1"))
    /\ UNCHANGED <<igor, db, web, apt, installer, rfile, script, droplets, rem>>

\* Lines 685-716, step 3: the SSH test (key-based, then interactive).
PsStep3(p, ok) ==
    /\ installer = "ps1"
    /\ loc[p].pc = "s3"
    /\ LET r == loc[p]
           b == [r EXCEPT !.narr = @ \cup {3}]
       IN IF ~StepLt(r, 3)
          THEN /\ ok
               /\ SetLoc(p, [r EXCEPT !.pc = "s45"])
               /\ UNCHANGED lfile
          ELSE IF ok /\ r.DropletIP # ""
          THEN Commit(p, PsRec(3, b),
                      [b EXCEPT !.pc = "s45", !.CurrentStep = 3,
                                !.stepKind = "num"])
          ELSE /\ ~ok
               /\ SetLoc(p, Ended(b, "1"))
               /\ UNCHANGED lfile
    /\ UNCHANGED <<igor, db, web, apt, installer, rfile, script, droplets, rem>>

\* Line 721: the guard of the block that holds step 4 and step 5.
Step45Guard(r) == StepLt(r, 5)

\* Lines 721-748, step 4: the droplet downloads the setup script. got:
\*   "fresh"  the script body arrived
\*   "empty"  curl failed inside the pipeline: sed still wrote an empty file
\*            and DOWNLOAD_OK was echoed
\*   "fail"   the SSH command failed: exit 1
PsStep4(p, got) ==
    /\ installer = "ps1"
    /\ loc[p].pc = "s45"
    /\ LET r == loc[p]
           b == [r EXCEPT !.narr = @ \cup {4}]
       IN IF ~Step45Guard(r)
          THEN /\ got = "fresh"
               /\ SetLoc(p, [r EXCEPT !.pc = "s6"])
               /\ UNCHANGED script
          ELSE IF got # "fail" /\ r.DropletIP # ""
          THEN /\ script' = got
               /\ SetLoc(p, [b EXCEPT !.pc = "s4dl"])
          ELSE /\ got = "fail"
               /\ SetLoc(p, Ended(b, "1"))
               /\ UNCHANGED script
    /\ UNCHANGED <<igor, db, web, apt, installer, lfile, rfile, droplets, rem>>

\* Lines 750-751: the save of step 4.
PsSave4(p) ==
    /\ installer = "ps1"
    /\ loc[p].pc = "s4dl"
    /\ Commit(p, PsRec(4, loc[p]),
              [loc[p] EXCEPT !.pc = "s5go", !.CurrentStep = 4,
                             !.stepKind = "num"])
    /\ UNCHANGED <<igor, db, web, apt, installer, rfile, script, droplets, rem>>

\* Lines 753-763, step 5: the remote script is started over SSH.
PsStep5(p) ==
    /\ installer = "ps1"
    /\ loc[p].pc = "s5go"
    /\ SetLoc(p, [loc[p] EXCEPT !.pc = "s5run", !.narr = @ \cup {5}])
    /\ \E s \in RemoteLaunch(loc[p].DropletIP) : rem' = [rem EXCEPT ![p] = s]
    /\ UNCHANGED <<igor, db, web, apt, installer, lfile, rfile, script, droplets>>

\* Lines 764-774: the SSH session has ended; step 5 is saved whatever its exit
\* code, which only decides the warning.
PsStep5Return(p) ==
    /\ installer = "ps1"
    /\ loc[p].pc = "s5run"
    /\ rem[p].pc = "off"
    /\ LET r == [loc[p] EXCEPT !.sshExitCode = rem[p].exit]
       IN Commit(p, PsRec(5, r),
                 [r EXCEPT !.pc = "s6", !.CurrentStep = 5, !.stepKind = "num",
                           !.warn = IF r.sshExitCode # "0"
                                    THEN @ \cup {"remote"} ELSE @])
    /\ UNCHANGED <<igor, db, web, apt, installer, rfile, script, droplets, rem>>

\* Lines 779-791, step 6: `openclaw --version` on the droplet; a failure is a
\* warning only.
PsStep6(p, ok) ==
    /\ installer = "ps1"
    /\ loc[p].pc = "s6"
    /\ LET r == loc[p]
           b == [r EXCEPT !.narr = @ \cup {6},
                          !.warn = IF ok THEN @ ELSE @ \cup {"verify"}]
       IN IF ~StepLt(r, 6)
          THEN /\ ok
               /\ SetLoc(p, [r EXCEPT !.pc = "end"])
               /\ UNCHANGED lfile
          ELSE Commit(p, PsRec(6, b),
                      [b EXCEPT !.pc = "end", !.CurrentStep = 6,
                                !.stepKind = "num"])
    /\ UNCHANGED <<igor, db, web, apt, installer, rfile, script, droplets, rem>>

\* An ending that prints the banner and leaves the checkpoint file in place.
PsEndKeepsFile(p) ==
    /\ installer = "ps1"
    /\ loc[p].pc = "end"
    /\ lfile' = lfile
    /\ SetLoc(p, Ended([loc[p] EXCEPT !.banner = TRUE], "0"))
    /\ UNCHANGED <<igor, db, web, apt, installer, rfile, script, droplets, rem>>

\* Lines 796-863: Clear-Checkpoint, the completion banner, exit 0.
PsEnd(p) ==
    /\ installer = "ps1"
    /\ loc[p].pc = "end"
    /\ lfile' = Absent
    /\ SetLoc(p, Ended([loc[p] EXCEPT !.banner = TRUE], "0"))
    /\ UNCHANGED <<igor, db, web, apt, installer, rfile, script, droplets, rem>>


(***************************************************************************)
(* install.sh (the bash local installer)                                   *)
(***************************************************************************)
\* Lines 77-106: --reset handling, load_checkpoint, load_checkpoint_vars.
\* Sourcing a file that is not shell assignments ends the script (set -e).
ShStart(p, reset) ==
    /\ installer = "sh"
    /\ loc[p].pc = "off"
    /\ LET f == ResetFile(reset, lfile)
           ld == load_checkpoint(f)
       IN /\ lfile' = f
          /\ IF ld.abort
             THEN SetLoc(p, Ended(LocOff, "127"))
             ELSE SetLoc(p, [LocOff EXCEPT !.pc = "s1",
                                           !.CurrentStep = ld.CurrentStep,
                                           !.stepKind = ld.stepKind,
                                           !.DropletIP = ld.DropletIP,
                                           !.SSHUser = ld.SSHUser,
                                           !.loaded = ld.CurrentStep,
                                           !.loadedKind = ld.stepKind,
                                           !.Reset = reset])
    /\ UNCHANGED <<igor, db, web, apt, installer, rfile, script, droplets, rem>>

\* Lines 111-128, step 1: ssh and curl must be installed.
ShStep1(p, ok) ==
    /\ installer = "sh"
    /\ loc[p].pc = "s1"
    /\ LET r == loc[p]
           b == [r EXCEPT !.narr = @ \cup {1}]
       IN IF GuardAborts(r)
          THEN /\ ok
               /\ SetLoc(p, Ended(r, "1"))
               /\ UNCHANGED lfile
          ELSE IF ~StepLt(r, 1)
          THEN /\ ok
               /\ SetLoc(p, [r EXCEPT !.pc = "s2"])
               /\ UNCHANGED lfile
          ELSE IF ok
          THEN Commit(p, save_checkpoint(1, "", "root"),
                      [b EXCEPT !.pc = "s2", !.CurrentStep = 1])
          ELSE /\ SetLoc(p, Ended(b, "1"))
               /\ UNCHANGED lfile
    /\ UNCHANGED <<igor, db, web, apt, installer, rfile, script, droplets, rem>>

\* Lines 133-151, step 2: the droplet's address and the SSH user are asked for.
ShStep2(p, ip, user) ==
    /\ installer = "sh"
    /\ loc[p].pc = "s2"
    /\ LET r == loc[p]
           b == [r EXCEPT !.narr = @ \cup {2}]
       IN IF ~StepLt(r, 2)
          THEN /\ ip = "" /\ user = ""
               /\ SetLoc(p, [r EXCEPT !.pc = "s3"])
               /\ UNCHANGED lfile
          ELSE IF ip = ""
          THEN /\ user = ""
               /\ SetLoc(p, Ended(b, "1"))
               /\ UNCHANGED lfile
          ELSE LET c == [b EXCEPT !.DropletIP = ip,
                                  !.SSHUser = IF user = "" THEN @ ELSE user]
               IN Commit(p, ShRec(2, c),
                         [c EXCEPT !.pc = "s3", !.CurrentStep = 2])
    /\ UNCHANGED <<igor, db, web, apt, installer, rfile, script, droplets, rem>>

\* Lines 156-178, step 3: the SSH test.
ShStep3(p, ok) ==
    /\ installer = "sh"
    /\ loc[p].pc = "s3"
    /\ LET r == loc[p]
           b == [r EXCEPT !.narr = @ \cup {3}]
       IN IF ~StepLt(r, 3)
          THEN /\ ok
               /\ SetLoc(p, [r EXCEPT !.pc = "s4"])
               /\ UNCHANGED lfile
          ELSE IF ok /\ r.DropletIP # ""
          THEN Commit(p, ShRec(3, b),
                      [b EXCEPT !.pc = "s4", !.CurrentStep = 3])
          ELSE /\ ~ok
               /\ SetLoc(p, Ended(b, "1"))
               /\ UNCHANGED lfile
    /\ UNCHANGED <<igor, db, web, apt, installer, rfile, script, droplets, rem>>

\* Lines 183-195, step 4: the script is fetched here and written on the
\* droplet through ssh; a failed curl or ssh ends the installer.
ShStep4(p, ok) ==
    /\ installer = "sh"
    /\ loc[p].pc = "s4"
    /\ LET r == loc[p]
           b == [r EXCEPT !.narr = @ \cup {4}]
       IN IF ~StepLt(r, 4)
          THEN /\ ok
               /\ SetLoc(p, [r EXCEPT !.pc = "s5go"])
               /\ UNCHANGED script
          ELSE IF ok /\ r.DropletIP # ""
          THEN /\ script' = "fresh"
               /\ SetLoc(p, [b EXCEPT !.pc = "s4dl"])
          ELSE /\ ~ok
               /\ SetLoc(p, Ended(b, "1"))
               /\ UNCHANGED script
    /\ UNCHANGED <<igor, db, web, apt, installer, lfile, rfile, droplets, rem>>

\* Lines 197-198: the save of step 4.
ShSave4(p) ==
    /\ installer = "sh"
    /\ loc[p].pc = "s4dl"
    /\ Commit(p, ShRec(4, loc[p]),
              [loc[p] EXCEPT !.pc = "s5go", !.CurrentStep = 4])
    /\ UNCHANGED <<igor, db, web, apt, installer, rfile, script, droplets, rem>>

\* Lines 204-215, step 5: the remote script is started over SSH.
ShStep5(p) ==
    /\ installer = "sh"
    /\ loc[p].pc = "s5go"
    /\ IF ~StepLt(loc[p], 5)
       THEN /\ SetLoc(p, [loc[p] EXCEPT !.pc = "end"])
            /\ UNCHANGED rem
       ELSE /\ SetLoc(p, [loc[p] EXCEPT !.pc = "s5run", !.narr = @ \cup {5}])
            /\ \E s \in RemoteLaunch(loc[p].DropletIP) :
                  rem' = [rem EXCEPT ![p] = s]
    /\ UNCHANGED <<igor, db, web, apt, installer, lfile, rfile, script, droplets>>

\* A bridge that would also compare the droplet's checkpoint with the step it
\* is about to save.
SshSucceededAndRemoteAtStep(r) ==
    r.sshExitCode = "0" /\ HasStep(rfile) /\ rfile.Step = ShLastStep

\* Lines 213-216: `|| { error ...; exit 1; }` tests the status of ssh alone.
SshSucceeded(r) == r.sshExitCode = "0"

\* Lines 215-223: the SSH session has ended; a non-zero status exits 1 without
\* a save, a zero status saves step 5.
ShStep5Return(p) ==
    /\ installer = "sh"
    /\ loc[p].pc = "s5run"
    /\ rem[p].pc = "off"
    /\ LET r == [loc[p] EXCEPT !.sshExitCode = rem[p].exit]
       IN IF ~SshSucceeded(r)
          THEN /\ SetLoc(p, Ended([r EXCEPT !.warn = @ \cup {"remote"}], "1"))
               /\ UNCHANGED lfile
          ELSE Commit(p, ShRec(5, r),
                      [r EXCEPT !.pc = "end", !.CurrentStep = 5])
    /\ UNCHANGED <<igor, db, web, apt, installer, rfile, script, droplets, rem>>

\* Lines 228-273: clear_checkpoint, the completion banner, exit 0.
ShEnd(p) ==
    /\ installer = "sh"
    /\ loc[p].pc = "end"
    /\ lfile' = Absent
    /\ SetLoc(p, Ended([loc[p] EXCEPT !.banner = TRUE], "0"))
    /\ UNCHANGED <<igor, db, web, apt, installer, rfile, script, droplets, rem>>


(***************************************************************************)
(* droplet-setup.sh (runs on the droplet, in the SSH session of slot p)    *)
(***************************************************************************)
RPc(k) == "r" \o ToString(k)

SetRem(p, r) == rem' = [rem EXCEPT ![p] = r]

\* save_checkpoint k at the end of remote step k: it returns, or the session is
\* cut inside the redirection, after the truncation.
RCommit(p, k, next) ==
    \/ /\ rfile' = remote_save_checkpoint(k)
       /\ SetRem(p, next)
    \/ /\ rfile' = Empty
       /\ SetRem(p, REnded("255"))

\* The droplet as created from the Ubuntu image: no Cloud SDK source line, no
\* gcloud, no /swapfile ("none", then "allocated", then "formatted"), no
\* active swap, no /swapfile line in /etc/fstab, and the remote script has
\* never told "Swap already configured". The swap fields follow the
\* statements of remote step 3 (SwapCheck, SwapCommand, SwapSave below).
FreshImage ==
    [lines |-> 0, gcloud |-> FALSE, swapfile |-> "none", swapon |-> FALSE,
     fstab |-> 0, told |-> FALSE]

\* The pre-checks of remote step k (steps 3 to 8):
\*   3  swapon --show lists a swap; the droplet has 2 GB of RAM or more
\*   4  node --version is v22*
\*   5  command -v tailscale; tailscale status shows a connection
\*   6  command -v gcloud; command -v gog; gog's keyring backend is file
\*   7  command -v openclaw
\*   8  openclaw status shows the gateway service
PreChecks(k) ==
    CASE k = 3 -> {"swap", "ram"}
      [] k = 4 -> {"node22"}
      [] k = 5 -> {"tailscale", "connected"}
      [] k = 6 -> {"gcloud", "gog", "keyring"}
      [] k = 7 -> {"openclaw"}
      [] k = 8 -> {"onboarded"}
      [] OTHER -> {}

\* A step body that would install whatever its pre-checks say.
InvokedAlways(k, pre, ans) ==
    CASE k = 2 -> {"apt-get upgrade"}
      [] k = 3 -> {"mkswap"}
      [] k = 4 -> {"nodesource"}
      [] k = 6 -> {"install gcloud", "install gog", "gog auth keyring file"}
      [] k = 7 -> {"install openclaw"}
      [] k = 8 -> {"openclaw onboard"}
      [] OTHER -> {}

\* The installing and configuring commands the body of step k invokes, given
\* the pre-checks `pre` that report their goal state and the operator's answer
\* `ans` to the step's y/n question (swap: "Add 2GB swap?", OpenClaw:
\* "Reinstall/upgrade?").
Invoked(k, pre, ans) ==
    CASE k = 2 -> {"apt-get upgrade"}
      [] k = 3 -> IF "swap" \in pre \/ "ram" \in pre \/ ans = "n"
                  THEN {} ELSE {"mkswap"}
      [] k = 4 -> IF "node22" \in pre THEN {} ELSE {"nodesource"}
      [] k = 6 -> (IF "gcloud" \in pre THEN {} ELSE {"install gcloud"})
                  \cup (IF "gog" \in pre THEN {} ELSE {"install gog"})
                  \cup (IF "keyring" \in pre THEN {}
                        ELSE {"gog auth keyring file"})
      [] k = 7 -> IF "openclaw" \in pre /\ ans = "n"
                  THEN {} ELSE {"install openclaw"}
      [] k = 8 -> IF "onboarded" \in pre THEN {} ELSE {"openclaw onboard"}
      [] OTHER -> {}

\* The remote script is at the guard of step k and is to execute the step.
AboutToRun(p, k) ==
    rem[p].pc = RPc(k) /\ rem[p].stepKind = "num" /\ rem[p].CURRENT_STEP < k

\* Step 6's gcloud part (lines 257-266) on the droplet's packages: with gcloud
\* found nothing is touched; otherwise the Cloud SDK line is appended to
\* google-cloud-sdk.list by tee -a and google-cloud-cli is installed.
\* outcome "fail" is a run that stops in the prerequisites' apt-get install
\* (before the append) or in the installation of gog (after gcloud's);
\* outcome "cut" is a run that stops between the append and the end of the
\* package install: the key download fails, apt-get fails, the session drops.
Step6Packages(a, pre, outcome) ==
    LET appended == [a EXCEPT !.lines = @ + 1]
        installed == [appended EXCEPT !.gcloud = TRUE]
    IN IF "gcloud" \in pre THEN {a}
       ELSE CASE outcome = "ok" -> {installed}
              [] outcome = "cut" -> {appended}
              [] OTHER -> {a} \cup (IF "gog" \in pre THEN {} ELSE {installed})

\* Steps 1-4 and 6-8 (lines 90-199, 254-352): the guard, the body, the save.
\* outcome "fail": an explicit exit 1 of step 1, or an invoked command failing
\* under set -e; the script ends without a save.
RemoteStep(p, k, pre, ans, outcome) ==
    /\ rem[p].pc = RPc(k)
    /\ LET r == rem[p]
       IN IF k = 1 /\ GuardAborts(r)
          THEN /\ outcome = "ok" /\ pre = {} /\ ans = "n"
               /\ SetRem(p, REnded("1"))
               /\ UNCHANGED rfile
          ELSE IF ~(r.stepKind = "num" /\ r.CURRENT_STEP < k)
          THEN /\ outcome = "ok" /\ pre = {} /\ ans = "n"
               /\ SetRem(p, [r EXCEPT !.pc = RPc(k + 1)])
               /\ UNCHANGED rfile
          ELSE IF outcome = "ok"
          THEN RCommit(p, k, [r EXCEPT !.pc = RPc(k + 1), !.found = pre,
                                       !.ran = Invoked(k, pre, ans)])
          ELSE /\ k = 1 \/ Invoked(k, pre, ans) # {}
               /\ outcome = "cut" => k = 6 /\ "gcloud" \notin pre
               /\ SetRem(p, REnded("1"))
               /\ UNCHANGED rfile
    /\ IF k = 6 /\ AboutToRun(p, 6)
       THEN /\ ("gcloud" \in pre) = apt.gcloud
            /\ "gcloud" \in pre \/ apt.lines < MaxSdkLines
            /\ apt' \in Step6Packages(apt, pre, outcome)
       ELSE /\ "gcloud" \notin pre
            /\ apt' = apt
    /\ UNCHANGED <<igor, db, web, installer, lfile, script, droplets, loc>>

\* Step 5 (lines 204-249): Tailscale. pre: whether Tailscale is installed and
\* whether it is connected; when it is not connected the auth key is asked
\* for and key "" skips. `tailscale up` failing is a warning; the installer
\* script of Tailscale failing ends the script (outcome "fail").
RemoteStep5(p, pre, key, outcome) ==
    /\ rem[p].pc = RPc(5)
    /\ "connected" \in pre => "tailscale" \in pre
    /\ LET r == rem[p]
           asked == "connected" \notin pre
           ran == (IF "tailscale" \in pre THEN {} ELSE {"install tailscale"})
                  \cup (IF asked /\ key # "" THEN {"tailscale up"} ELSE {})
       IN IF ~(r.stepKind = "num" /\ r.CURRENT_STEP < 5)
          THEN /\ outcome = "ok" /\ pre = {} /\ key = ""
               /\ SetRem(p, [r EXCEPT !.pc = RPc(6)])
               /\ UNCHANGED rfile
          ELSE IF outcome = "ok"
          THEN /\ asked \/ key = ""
               /\ RCommit(p, 5, [r EXCEPT !.pc = RPc(6),
                                          !.ts_key = IF asked THEN key ELSE @,
                                          !.found = pre, !.ran = ran])
          ELSE /\ "tailscale" \notin pre /\ key = ""
               /\ SetRem(p, REnded("1"))
               /\ UNCHANGED rfile
    /\ UNCHANGED <<igor, db, web, apt, installer, lfile, script, droplets, loc>>

\* Line 383: the first smoke test passes on any output without error or Error.
TestPassed(t) == t # "" /\ t \notin SaysError /\ t \notin SaysLowerError
\* Line 407: after the second onboarding only the word error is looked for.
RetestPassed(t) == t # "" /\ t \notin SaysLowerError

\* Step 9 (lines 357-417): the smoke test. result: the output of the test;
\* configure: the answer to "configure your API key now?" after a failed test;
\* result2: the output of the test run again; outcome "fail": `openclaw
\* onboard` failing under set -e. The step is saved whatever the test said.
RemoteStep9(p, result, configure, result2, outcome) ==
    /\ rem[p].pc = RPc(9)
    /\ LET r == rem[p]
       IN IF ~(r.stepKind = "num" /\ r.CURRENT_STEP < 9)
          THEN /\ outcome = "ok" /\ result = "" /\ ~configure /\ result2 = ""
               /\ SetRem(p, [r EXCEPT !.pc = RPc(10)])
               /\ UNCHANGED rfile
          ELSE IF TestPassed(result) \/ ~configure
          THEN /\ outcome = "ok" /\ ~configure /\ result2 = ""
               /\ RCommit(p, 9, [r EXCEPT !.pc = RPc(10), !.TEST_RESULT = result,
                                         !.found = {}, !.ran = {}])
          ELSE IF outcome = "ok"
          THEN RCommit(p, 9, [r EXCEPT !.pc = RPc(10), !.TEST_RESULT = result2,
                                       !.found = {}, !.ran = {}])
          ELSE /\ result2 = ""
               /\ SetRem(p, REnded("1"))
               /\ UNCHANGED rfile
    /\ UNCHANGED <<igor, db, web, apt, installer, lfile, script, droplets, loc>>

\* Step 10 (lines 422-949): channel setup. choice: what is typed at "Enter
\* choice (1-4)"; the while loop asks again on an empty answer only, and each
\* part runs when the answer contains its digit. token: what is typed at the
\* Telegram bot token prompt ("" when Telegram is not chosen or the answer is
\* empty). outcome "fail": a command of the Gmail part failing under set -e.
RemoteStep10(p, choice, token, chan, outcome) ==
    /\ rem[p].pc = RPc(10)
    /\ LET r == rem[p]
       IN IF ~(r.stepKind = "num" /\ r.CURRENT_STEP < 10)
          THEN /\ outcome = "ok" /\ token = "" /\ choice = "4"
               /\ SetRem(p, [r EXCEPT !.pc = "rend"])
               /\ UNCHANGED rfile
          ELSE IF choice = ""
          THEN /\ outcome = "ok" /\ token = ""
               /\ UNCHANGED <<rem, rfile>>
          ELSE IF outcome = "ok"
          THEN /\ choice # "2" => token = ""
               /\ RCommit(p, 10, [r EXCEPT !.pc = "rend", !.tg_token = token,
                                           !.channel_choices = choice,
                                           !.chan = chan,
                                           !.TEST_RESULT = "unset",
                                           !.found = {}, !.ran = {}])
          ELSE /\ token = "" /\ choice = "3"
               /\ SetRem(p, REnded("1"))
               /\ UNCHANGED rfile
    /\ UNCHANGED <<igor, db, web, apt, installer, lfile, script, droplets, loc>>

\* Lines 956-990: the summary; the checkpoint is kept; exit 0.
RemoteEnd(p) ==
    /\ rem[p].pc = "rend"
    /\ SetRem(p, REnded("0"))
    /\ UNCHANGED <<igor, db, web, apt, installer, lfile, rfile, script, droplets, loc>>

\* The operator logs in to the droplet from a free terminal and runs
\* `bash /tmp/openclaw-setup.sh [--reset]` by hand: lines 67-85.
RemoteManual(p, reset) ==
    /\ loc[p].pc = "off"
    /\ rem[p].pc = "off"
    /\ script = "fresh"
    /\ LET f == ResetFile(reset, rfile)
           ld == remote_load_checkpoint(f)
       IN /\ rfile' = f
          /\ SetRem(p, [RemOff EXCEPT !.pc = "r1", !.CURRENT_STEP = ld.step,
                                      !.stepKind = ld.kind, !.reset = reset])
    /\ UNCHANGED <<igor, db, web, apt, installer, lfile, script, droplets, loc>>

\* The lines a child run `bash "$0" <<< "c"` finds on its standard input: the
\* here-string holds the menu answer and nothing else.
HereString(c) == <<c>>

\* The reads of a channel's branch that come before its configure command:
\* WhatsApp "Do you have a dedicated number ready?" and "Press Enter to show
\* QR code..." (lines 77, 93), Telegram "Enter your bot token" (line 123),
\* Gmail "Enter the Gmail address" (line 177).
ReadsBeforeConfigure(c) ==
    CASE c = "1" -> 2
      [] c = "2" -> 1
      [] c = "3" -> 1
      [] OTHER -> 0

\* A child run of choice 4. `read` at the end of input returns a non-zero
\* status, which ends the child under set -e (line 8): a child whose input
\* holds fewer lines than its menu and its branch read never reaches the
\* configure command.
ChildRun(c) ==
    IF Len(HereString(c)) < 1 + ReadsBeforeConfigure(c)
    THEN [exit |-> "1", configure |-> FALSE]
    ELSE [exit |-> "0", configure |-> TRUE]

\* Lines 245-248: the three child runs of choice 4, one after the other; under
\* set -e the first child that ends with a non-zero status ends the parent.
RECURSIVE AllChannels(_, _)
AllChannels(todo, done) ==
    IF todo = <<>> THEN [done EXCEPT !.exit = "0"]
    ELSE LET c == ChildRun(Head(todo))
             d == [done EXCEPT !.children = @ \cup {Head(todo)},
                               !.configure = IF c.configure
                                             THEN @ \cup {Head(todo)} ELSE @]
         IN IF c.exit # "0" THEN [d EXCEPT !.exit = c.exit]
            ELSE AllChannels(Tail(todo), d)

\* setup-channels.sh run by hand on the droplet, from start to exit (lines
\* 42-262): without OpenClaw (installed by remote step 7) it exits 1; choice 2
\* asks for the bot token, exits 1 on an empty answer and otherwise adds the
\* channel (a failing `openclaw channels add` ends the script under set -e);
\* choice 4 runs the script again for choices 1, 2 and 3; choice 5 exits 0; a
\* choice that is not on the menu exits 1.
SetupChannels(p, CHOICE, BOT_TOKEN, added) ==
    /\ loc[p].pc = "off"
    /\ rem[p].pc = "off"
    /\ LET r == [RemOff EXCEPT !.prog = "setup-channels.sh"]
           asked == [r EXCEPT !.channel_choices = CHOICE,
                              !.tg_token = BOT_TOKEN]
           all == AllChannels(<<"1", "2", "3">>,
                              [children |-> {}, configure |-> {}, exit |-> "0"])
       IN IF ~(HasStep(rfile) /\ rfile.Step >= 7)
          THEN /\ CHOICE = "5" /\ BOT_TOKEN = "" /\ added
               /\ SetRem(p, [r EXCEPT !.exit = "1"])
          ELSE /\ CHOICE # "2" => BOT_TOKEN = "" /\ added
               /\ BOT_TOKEN = "" => added
               /\ SetRem(p,
                    CASE CHOICE = "5" -> [asked EXCEPT !.exit = "0"]
                      [] CHOICE = "2" /\ BOT_TOKEN # "" ->
                            [asked EXCEPT
                                !.exit = IF added THEN "0" ELSE "1",
                                !.chan = TelegramSetup(BOT_TOKEN, added),
                                !.chan.okLines = IF added THEN {"Telegram"}
                                                 ELSE {}]
                      [] CHOICE = "4" ->
                            [asked EXCEPT
                                !.exit = all.exit,
                                !.chan.children = all.children,
                                !.chan.calls = Cardinality(all.configure)]
                      [] OTHER -> [asked EXCEPT !.exit = "1"])
    /\ UNCHANGED <<igor, db, web, apt, installer, lfile, rfile, script, droplets, loc>>

(***************************************************************************)
(* Remote step 3 statement by statement (droplet-setup.sh lines 143-174),  *)
(* and the droplet's reboot.                                               *)
(***************************************************************************)
\* Lines 156-160: the commands of the swap-creating body, in order.
SwapCommands == <<"fallocate", "chmod", "mkswap", "swapon", "fstab">>

\* The remote script is about to run the i-th command of the body.
SwapPc(i) == "r3:" \o SwapCommands[i]

\* Lines 143-155 and 162-170: the guard of step 3, TOTAL_MEM, SWAP_EXISTS and
\* the question "Add 2GB swap? (Y/n)". ram: the droplet has 2048 MB or more.
SwapCheck(p, ram, ans) ==
    /\ rem[p].pc = RPc(3)
    /\ LET r == rem[p]
       IN IF ~(r.stepKind = "num" /\ r.CURRENT_STEP < 3)
          THEN /\ ram /\ ans = "n"
               /\ SetRem(p, [r EXCEPT !.pc = RPc(4)])
               /\ apt' = apt
          ELSE IF apt.swapon
          THEN /\ ram /\ ans = "n"
               /\ SetRem(p, [r EXCEPT !.pc = "r3:save", !.found = {"swap"},
                                      !.ran = {}])
               /\ apt' = [apt EXCEPT !.told = TRUE]
          ELSE IF ram \/ ans = "n"
          THEN /\ ram => ans = "n"
               /\ SetRem(p, [r EXCEPT !.pc = "r3:save",
                                      !.found = IF ram THEN {"ram"} ELSE {},
                                      !.ran = {}])
               /\ apt' = apt
          ELSE /\ SetRem(p, [r EXCEPT !.pc = SwapPc(1), !.found = {},
                                      !.ran = {}])
               /\ apt' = apt
    /\ UNCHANGED <<igor, db, web, installer, lfile, rfile, script, droplets, loc>>

\* Lines 156-160, one command: fallocate keeps a file that exists, mkswap
\* formats it, swapon activates it, echo >> appends the line to /etc/fstab. A
\* failing command ends the script under set -e.
SwapCommand(p, ok) ==
    /\ \E i \in 1..Len(SwapCommands) :
          /\ rem[p].pc = SwapPc(i)
          /\ LET c == SwapCommands[i]
             IN IF ~ok
                THEN /\ SetRem(p, REnded("1"))
                     /\ apt' = apt
                ELSE /\ SetRem(p, [rem[p] EXCEPT
                                      !.pc = IF i = Len(SwapCommands)
                                             THEN "r3:save" ELSE SwapPc(i + 1),
                                      !.ran = @ \cup {c}])
                     /\ c = "fstab" => apt.fstab < MaxFstab
                     /\ apt' = CASE c = "fallocate" ->
                                      [apt EXCEPT !.swapfile =
                                          IF @ = "none" THEN "allocated" ELSE @]
                                 [] c = "mkswap" ->
                                      [apt EXCEPT !.swapfile = "formatted"]
                                 [] c = "swapon" ->
                                      [apt EXCEPT !.swapon =
                                                     apt.swapfile = "formatted"]
                                 [] c = "fstab" ->
                                      [apt EXCEPT !.fstab = @ + 1]
                                 [] OTHER -> apt
    /\ UNCHANGED <<igor, db, web, installer, lfile, rfile, script, droplets, loc>>

\* Line 173: save_checkpoint 3.
SwapSave(p) ==
    /\ rem[p].pc = "r3:save"
    /\ RCommit(p, 3, [rem[p] EXCEPT !.pc = RPc(4)])
    /\ UNCHANGED <<igor, db, web, apt, installer, lfile, script, droplets, loc>>

\* The droplet reboots: every session ends, the swap is active afterwards if
\* and only if /etc/fstab names a formatted /swapfile, and /tmp, which holds
\* the checkpoint (line 22) and the script, is emptied where the system
\* clears it at boot (cleared) and kept otherwise.
Reboot(cleared) ==
    /\ apt' = [apt EXCEPT !.swapon = apt.fstab >= 1
                                       /\ apt.swapfile = "formatted"]
    /\ rem' = [p \in Procs |->
                  IF rem[p].pc # "off" THEN REnded("255") ELSE rem[p]]
    /\ rfile' = IF cleared THEN Absent ELSE rfile
    /\ script' = IF cleared THEN "absent" ELSE script
    /\ UNCHANGED <<igor, db, web, installer, lfile, droplets, loc>>

\* The setup script is fetched to the droplet again (step 4 of the local
\* installers, or curl by hand).
FetchScript ==
    /\ script # "fresh"
    /\ \A p \in Procs : rem[p].pc = "off"
    /\ script' = "fresh"
    /\ UNCHANGED <<igor, db, web, apt, installer, lfile, rfile, droplets, loc, rem>>

(***************************************************************************)
(* Interruptions.                                                          *)
(***************************************************************************)
\* The local process is killed (Ctrl-C, terminal closed); its SSH session, if
\* any, goes with it.
Kill(p) ==
    /\ loc[p].pc # "off"
    /\ SetLoc(p, Ended(loc[p], "killed"))
    /\ SetRem(p, RemOff)
    /\ UNCHANGED <<igor, db, web, apt, installer, lfile, rfile, script, droplets>>

\* The SSH session is cut (network drop, droplet reboot): ssh returns 255.
Drop(p) ==
    /\ rem[p].pc # "off"
    /\ SetRem(p, REnded("255"))
    /\ UNCHANGED <<igor, db, web, apt, installer, lfile, rfile, script, droplets, loc>>

(***************************************************************************)
(* The website: the rigs table (schema.ts), the seed script (part_002) and *)
(* the rigs API routes (part_008) with their validation (validation.ts).   *)
(*                                                                         *)
(* db   rows    the rows of table rigs                                     *)
(*      serial  the last value drawn from the id sequence                  *)
(*      now     the database clock                                         *)
(* web  per slot, the seed run or API request executing there, with the    *)
(*      response of the last request of the slot (status) and the checks   *)
(*      that request had passed (checks)                                   *)
(***************************************************************************)
\* Concurrent seed runs and requests.
WebProcs == {1, 2}

\* Values the id sequence may give out, and ticks of the database clock.
MaxSerial == 4
MaxNow == 5

\* Seed runs one slot may come to start.
MaxRuns == 2

\* POST requests that may come to their insert.
MaxPosts == 2

\* Names in the texts: characters in a tuple.
Igor == <<"I", "g", "o", "r">>
IgorBang == <<"i", "g", "o", "r", "!">>
MyRig == <<"M", "y", " ", "R", "i", "g">>
OpenClawOnDigitalOcean ==
    <<"O", "p", "e", "n", "C", "l", "a", "w", " ", "o", "n", " ",
      "D", "i", "g", "i", "t", "a", "l", "O", "c", "e", "a", "n">>

Upper == <<"A", "B", "C", "D", "E", "F", "G", "H", "I", "J", "K", "L", "M",
           "N", "O", "P", "Q", "R", "S", "T", "U", "V", "W", "X", "Y", "Z">>
Lower == <<"a", "b", "c", "d", "e", "f", "g", "h", "i", "j", "k", "l", "m",
           "n", "o", "p", "q", "r", "s", "t", "u", "v", "w", "x", "y", "z">>
Digits == {"0", "1", "2", "3", "4", "5", "6", "7", "8", "9"}

\* String.prototype.toLowerCase, on one character.
toLowerCase(c) ==
    IF \E i \in 1..26 : Upper[i] = c
    THEN Lower[CHOOSE i \in 1..26 : Upper[i] = c]
    ELSE c

\* [a-z0-9]
SlugChar(c) == c \in Digits \/ \E i \in 1..26 : Lower[i] = c

\* The text after its leading run of characters outside [a-z0-9].
RECURSIVE SkipRun(_)
SkipRun(s) ==
    IF s = <<>> \/ SlugChar(Head(s)) THEN s ELSE SkipRun(Tail(s))

\* .replace(/[^a-z0-9]+/g, "-"): every run of other characters becomes one "-".
RECURSIVE ReplaceRuns(_)
ReplaceRuns(s) ==
    IF s = <<>> THEN <<>>
    ELSE IF SlugChar(Head(s)) THEN <<Head(s)>> \o ReplaceRuns(Tail(s))
    ELSE <<"-">> \o ReplaceRuns(SkipRun(s))

\* .replace(/^-|-$/g, ""): a "-" at the start and a "-" at the end are removed.
TrimDashes(s) ==
    LET a == IF s # <<>> /\ Head(s) = "-" THEN Tail(s) ELSE s
    IN IF a # <<>> /\ a[Len(a)] = "-" THEN SubSeq(a, 1, Len(a) - 1) ELSE a

\* The characters as one string.
RECURSIVE Text(_)
Text(s) == IF s = <<>> THEN "" ELSE Head(s) \o Text(Tail(s))

\* validation.ts lines 23-28.
nameToSlug(name) ==
    Text(TrimDashes(ReplaceRuns([i \in 1..Len(name) |-> toLowerCase(name[i])])))

\* A schema that lets every object pass.
acceptAnyBody(body) == TRUE

\* validation.ts lines 5-16, on the fields the requests here vary: the name
\* (1 to 100 characters), the description (10 to 2000) and the category.
submitRigSchema(body) ==
    /\ Len(body.name) >= 1 /\ Len(body.name) <= 100
    /\ body.description >= 10 /\ body.description <= 2000
    /\ body.category \in {"ci-cd", "coding", "personal", "automation"}

\* What api.github.com answers for the contents of the repository path: no
\* answer (status "none"), a status other than 200, a body that is no array
\* (the path is a file), or a directory listing.
GitHubAnswers ==
    [status : {"none", "404", "403"}, array : {FALSE}, files : {{}}]
        \cup [status : {"200"}, array : {FALSE}, files : {{}}]
        \cup [status : {"200"}, array : {TRUE},
              files : SUBSET {"install.ps1", "install.sh"}]

\* validation.ts lines 34-95.
validateGitHubRepo(res) ==
    /\ res.status = "200"
    /\ res.array
    /\ "install.ps1" \in res.files
    /\ "install.sh" \in res.files

\* part_002 lines 20-65.
seedRigs ==
    <<[slug |-> "igor", name |-> Igor, submittedBy |-> "marshellis"],
      [slug |-> "openclaw-droplet", name |-> OpenClawOnDigitalOcean,
       submittedBy |-> "marshellis"]>>

\* session.user.login of a request: no session, or a GitHub login.
Logins == {"alice", "bob"}
NoSession == "none"

\* session.user.image, and the avatar the seed script gives.
Avatar(login) == "avatars/" \o login

\* schema.ts: a row of rigs. id is serial; createdAt and updatedAt default to
\* now().
Row(id, slug, name, submittedBy, at) ==
    [id |-> id, slug |-> slug, name |-> name, submittedBy |-> submittedBy,
     submittedByAvatar |-> Avatar(submittedBy), createdAt |-> at,
     updatedAt |-> at]

EmptyDb == [rows |-> {}, serial |-> 0, now |-> 0]

\* A table without the unique index on slug.
NoUniqueIndex(rows, slug) == FALSE

\* schema.ts line 11, slug ... .unique(): an insert of a slug the table holds
\* is rejected with "duplicate key value violates unique constraint".
UniqueViolation(rows, slug) == \E r \in rows : r.slug = slug

\* select ... where slug = ... limit 1.
SelectBySlug(rows, slug) == {r \in rows : r.slug = slug}

\* insert into rigs: the sequence and the clock advance; the row is added
\* unless the unique index rejects it.
Insert(d, slug, name, submittedBy) ==
    [rows |-> IF UniqueViolation(d.rows, slug) THEN d.rows
              ELSE d.rows \cup {Row(d.serial + 1, slug, name, submittedBy,
                                    d.now + 1)},
     serial |-> d.serial + 1,
     now |-> d.now + 1]

\* The seed script's update ... where slug = ...: name (and the other
\* descriptive columns with it) and updatedAt.
Update(d, slug, name) ==
    [d EXCEPT !.rows = {IF r.slug = slug
                        THEN [r EXCEPT !.name = name, !.updatedAt = d.now + 1]
                        ELSE r : r \in d.rows},
              !.now = @ + 1]

\* delete from rigs where slug = ...
Delete(d, slug) == [d EXCEPT !.rows = {r \in d.rows : r.slug # slug}]

Idle == [op |-> "idle", pc |-> "idle", login |-> NoSession, slug |-> "",
         name |-> <<>>, i |-> 0, existing |-> FALSE, checks |-> <<>>,
         status |-> "none", errors |-> {}, runs |-> 0]

SetWeb(p, w) == web' = [web EXCEPT ![p] = w]

\* A slot's request or run is over: its response and log stay until the
\* slot's next one.
Done(w, status) ==
    [Idle EXCEPT !.status = status, !.errors = w.errors, !.runs = w.runs,
                 !.checks = w.checks]

\* `npx tsx src/lib/db/seed-rigs.ts` is started.
SeedStart(p) ==
    /\ web[p].op = "idle"
    /\ web[p].runs < MaxRuns
    /\ SetWeb(p, [Idle EXCEPT !.op = "seed", !.pc = "select", !.i = 1,
                              !.runs = web[p].runs + 1])
    /\ UNCHANGED <<igor, db, apt, installer, lfile, rfile, script, droplets, loc, rem>>

\* part_002 lines 76-80: the select for seed rig i.
SeedSelect(p) ==
    /\ web[p].op = "seed" /\ web[p].pc = "select"
    /\ SetWeb(p, [web[p] EXCEPT
                     !.pc = "write",
                     !.existing =
                         SelectBySlug(db.rows, seedRigs[web[p].i].slug) # {}])
    /\ UNCHANGED <<igor, db, apt, installer, lfile, rfile, script, droplets, loc, rem>>

\* part_002 lines 82-113: the update or the insert for seed rig i, the catch
\* that logs a failed statement, and the loop's next turn or the script's end.
SeedWrite(p) ==
    /\ web[p].op = "seed" /\ web[p].pc = "write"
    /\ db.now < MaxNow /\ (web[p].existing \/ db.serial < MaxSerial)
    /\ LET w == web[p]
           rig == seedRigs[w.i]
           failed == ~w.existing /\ UniqueViolation(db.rows, rig.slug)
           logged == [w EXCEPT !.errors = IF failed THEN @ \cup {rig.slug}
                                          ELSE @]
       IN /\ db' = IF w.existing THEN Update(db, rig.slug, rig.name)
                   ELSE Insert(db, rig.slug, rig.name, rig.submittedBy)
          /\ SetWeb(p, IF w.i < Len(seedRigs)
                       THEN [logged EXCEPT !.pc = "select", !.i = w.i + 1]
                       ELSE Done(logged, "0"))
    /\ UNCHANGED <<igor, apt, installer, lfile, rfile, script, droplets, loc, rem>>

\* The bodies sent to POST /api/rigs: text that is no JSON, or an object
\* (description: its length).
Bodies ==
    [json : {FALSE}, name : {<<>>}, description : {0}, category : {""}] \cup
    [json : {TRUE}, name : {<<>>, Igor, IgorBang, MyRig},
     description : {40}, category : {"coding"}] \cup
    [json : {TRUE}, name : {Igor}, description : {5}, category : {"coding"}] \cup
    [json : {TRUE}, name : {Igor}, description : {40}, category : {"games"}]

\* The body of a request and GitHub's answer where the handler reads neither.
NoBody == [json |-> FALSE, name |-> <<>>, description |-> 0, category |-> ""]
NoAnswer == [status |-> "none", array |-> FALSE, files |-> {}]

\* POST /api/rigs, part_008 lines 57-95: the session, the JSON body, the
\* schema and the repository check, up to the insert. The body is read only
\* with a session, and GitHub is asked only about a body that passed the
\* schema.
PostRig(p, login, body, res) ==
    /\ web[p].op = "idle"
    /\ login = NoSession => body = NoBody
    /\ login = NoSession \/ ~body.json \/ ~submitRigSchema(body)
           => res = NoAnswer
    /\ LET w == [Idle EXCEPT !.runs = web[p].runs, !.login = login]
           a == [w EXCEPT !.checks = <<"auth">>]
           b == [w EXCEPT !.checks = <<"auth", "schema">>]
           c == [w EXCEPT !.checks = <<"auth", "schema", "github">>]
       IN SetWeb(p, IF login = NoSession THEN Done(w, "401")
                    ELSE IF ~body.json THEN Done(a, "400")
                    ELSE IF ~submitRigSchema(body) THEN Done(a, "400")
                    ELSE IF ~validateGitHubRepo(res) THEN Done(b, "422")
                    ELSE [c EXCEPT !.op = "POST", !.pc = "insert",
                                   !.name = body.name,
                                   !.slug = nameToSlug(body.name)])
    /\ UNCHANGED <<igor, db, apt, installer, lfile, rfile, script, droplets, loc, rem>>

\* part_008 lines 97-133: the insert and its catch. fault: the statement
\* fails for another reason than the unique index.
PostInsert(p, fault) ==
    /\ web[p].op = "POST" /\ web[p].pc = "insert"
    /\ db.serial < MaxPosts
    /\ LET w == web[p]
       IN IF fault
          THEN /\ SetWeb(p, Done(w, "500"))
               /\ UNCHANGED db
          ELSE /\ db' = Insert(db, w.slug, w.name, w.login)
               /\ SetWeb(p, [Done(w, IF UniqueViolation(db.rows, w.slug)
                                     THEN "409" ELSE "201")
                                EXCEPT !.name = w.name, !.slug = w.slug])
    /\ UNCHANGED <<igor, apt, installer, lfile, rfile, script, droplets, loc, rem>>

\* The slugs DELETE requests name.
Slugs == {"igor", "my-rig", "none"}

\* DELETE /api/rigs/[slug], part_008 lines 171-180: the session.
DeleteRig(p, login, slug) ==
    /\ web[p].op = "idle"
    /\ LET w == [Idle EXCEPT !.runs = web[p].runs, !.login = login,
                             !.slug = slug]
       IN SetWeb(p, IF login = NoSession THEN Done(w, "401")
                    ELSE [w EXCEPT !.op = "DELETE", !.pc = "select",
                                   !.checks = <<"auth">>])
    /\ UNCHANGED <<igor, db, apt, installer, lfile, rfile, script, droplets, loc, rem>>

\* part_008 lines 182-198: the select, 404 without a row, 403 for a row of
\* another submitter.
DeleteSelect(p, fault) ==
    /\ web[p].op = "DELETE" /\ web[p].pc = "select"
    /\ LET w == web[p]
           rig == SelectBySlug(db.rows, w.slug)
       IN SetWeb(p, IF fault THEN Done(w, "500")
                    ELSE IF rig = {} THEN Done(w, "404")
                    ELSE IF (CHOOSE r \in rig : TRUE).submittedBy # w.login
                    THEN Done(w, "403")
                    ELSE [w EXCEPT !.pc = "delete"])
    /\ UNCHANGED <<igor, db, apt, installer, lfile, rfile, script, droplets, loc, rem>>

\* part_008 lines 200-209: the delete and the response.
DeleteRow(p, fault) ==
    /\ web[p].op = "DELETE" /\ web[p].pc = "delete"
    /\ IF fault
       THEN /\ SetWeb(p, Done(web[p], "500"))
            /\ UNCHANGED db
       ELSE /\ db' = Delete(db, web[p].slug)
            /\ SetWeb(p, Done(web[p], "200"))
    /\ UNCHANGED <<igor, apt, installer, lfile, rfile, script, droplets, loc, rem>>

(***************************************************************************)
(* The Igor installers: rigs/igor/install.sh and rigs/igor/setup.sh, both  *)
(* under set -euo pipefail.                                                *)
(*   prog    the script that runs or ran last                              *)
(*   warn    the WARN and FAIL lines it printed                            *)
(*   ran     the gh commands it invoked that create something              *)
(*   banner  the closing "Igor is installed!" / "Igor setup complete!"     *)
(*   label   the target repository holds the label claude-incremental      *)
(***************************************************************************)
IgorOff ==
    [prog |-> "none", pc |-> "off", warn |-> {}, ran |-> {}, banner |-> FALSE,
     exit |-> "none", label |-> FALSE]

IgorProgs == {"install.sh", "setup.sh"}

\* The run is over with status `code`; the repository keeps its label.
IgorEnded(g, code) == [g EXCEPT !.pc = "off", !.exit = code]

\* install.sh sets the secret (step 4) and then creates the label (step 5);
\* setup.sh creates the label (step 4) and then sets the secret (step 5).
IgorStart(prog) ==
    /\ igor.pc = "off"
    /\ igor' = [IgorOff EXCEPT !.prog = prog, !.pc = "files",
                               !.label = igor.label]
    /\ UNCHANGED <<db, web, apt, installer, lfile, rfile, script, droplets, loc, rem>>

\* Steps 1 to 3 (install.sh lines 56-141, setup.sh lines 59-156): the
\* prerequisites, the target repository and the workflow file; a failure of
\* one of them prints FAIL and exits 1. The issue template that cannot be
\* fetched or found is a warning.
IgorFiles(ok, template) ==
    /\ igor.pc = "files"
    /\ ~ok => template
    /\ igor' = IF ~ok
               THEN IgorEnded([igor EXCEPT !.warn = @ \cup {"FAIL"}], "1")
               ELSE [igor EXCEPT
                        !.pc = IF igor.prog = "install.sh" THEN "secret"
                               ELSE "label",
                        !.warn = IF template THEN @ ELSE @ \cup {"template"}]
    /\ UNCHANGED <<db, web, apt, installer, lfile, rfile, script, droplets, loc, rem>>

\* install.sh lines 143-163, setup.sh lines 174-195: the API key; an empty
\* key is a skip with a warning, `gh secret set` failing is a warning.
IgorSecret(API_KEY, ok) ==
    /\ igor.pc = "secret"
    /\ API_KEY = "" => ok
    /\ igor' = [igor EXCEPT
                   !.pc = IF igor.prog = "install.sh" THEN "label"
                          ELSE "permissions",
                   !.warn = IF API_KEY = "" THEN @ \cup {"secret skipped"}
                            ELSE IF ok THEN @ ELSE @ \cup {"secret"}]
    /\ UNCHANGED <<db, web, apt, installer, lfile, rfile, script, droplets, loc, rem>>

\* $EXISTING_LABEL: the names `gh label list --search claude-incremental`
\* prints, nothing when the command fails (|| true). others: the repository
\* holds another label that the search matches.
EXISTING_LABEL(label, listed, others) ==
    IF ~listed THEN {}
    ELSE (IF label THEN {"claude-incremental"} ELSE {})
             \cup (IF others THEN {"claude-incremental-done"} ELSE {})

\* install.sh lines 165-179, setup.sh lines 158-172: the label is created
\* unless the listing is exactly its name; `gh label create` fails when the
\* repository holds the label, or for another reason (~ok).
IgorLabel(listed, others, ok) ==
    /\ igor.pc = "label"
    /\ EXISTING_LABEL(igor.label, listed, others) = {"claude-incremental"} => ok
    /\ LET found == EXISTING_LABEL(igor.label, listed, others)
                        = {"claude-incremental"}
           created == ~found /\ ~igor.label /\ ok
       IN igor' = [igor EXCEPT
                      !.pc = IF igor.prog = "install.sh" THEN "permissions"
                             ELSE "secret",
                      !.ran = IF found THEN @ ELSE @ \cup {"label create"},
                      !.warn = IF found \/ created THEN @
                               ELSE @ \cup {"label"},
                      !.label = @ \/ created]
    /\ UNCHANGED <<db, web, apt, installer, lfile, rfile, script, droplets, loc, rem>>

\* install.sh lines 181-194, setup.sh lines 197-210: the Actions permissions;
\* the first call is followed by || true, the second failing is a warning.
IgorPermissions(ok) ==
    /\ igor.pc = "permissions"
    /\ igor' = [igor EXCEPT !.pc = "issue",
                            !.warn = IF ok THEN @ ELSE @ \cup {"permissions"}]
    /\ UNCHANGED <<db, web, apt, installer, lfile, rfile, script, droplets, loc, rem>>

\* install.sh lines 196-229, setup.sh lines 212-247: the sample issue, when
\* the answer is y. ISSUE_URL=$(gh issue create ...) is a plain assignment:
\* under set -e its failure ends the script with gh's status before the test
\* of $? on the next line is reached.
IgorIssue(CREATE_ISSUE, ok) ==
    /\ igor.pc = "issue"
    /\ CREATE_ISSUE # "y" => ok
    /\ igor' = IF CREATE_ISSUE # "y" THEN [igor EXCEPT !.pc = "done"]
               ELSE IF ok
               THEN [igor EXCEPT !.pc = "done",
                                 !.ran = @ \cup {"issue create"}]
               ELSE IgorEnded([igor EXCEPT !.ran = @ \cup {"issue create"}],
                              "1")
    /\ UNCHANGED <<db, web, apt, installer, lfile, rfile, script, droplets, loc, rem>>

\* install.sh lines 231-257, setup.sh lines 249-262: the closing banner.
IgorDone ==
    /\ igor.pc = "done"
    /\ igor' = IgorEnded([igor EXCEPT !.banner = TRUE], "0")
    /\ UNCHANGED <<db, web, apt, installer, lfile, rfile, script, droplets, loc, rem>>

(***************************************************************************)
(* Specifications.                                                         *)
(***************************************************************************)
Init ==
    /\ installer \in {"ps1", "sh"}
    /\ lfile = Absent
    /\ rfile = Absent
    /\ script = "absent"
    /\ droplets = 0
    /\ apt = FreshImage
    /\ db = EmptyDb
    /\ web = [p \in WebProcs |-> Idle]
    /\ igor = IgorOff
    /\ loc = [p \in Procs |-> LocOff]
    /\ rem = [p \in Procs |-> RemOff]

\* The steps of install.ps1 in slot p, short of its completion. Resets: the
\* values of the -Reset flag; Answers: the operator's answers to "Use this
\* droplet? (y/n)".
PsSteps(p, Resets, Answers) ==
    \/ \E reset \in Resets : PsStart(p, reset)
    \/ \E outcome \in {"ok", "fail", "decline"} : PsStep1(p, outcome)
    \/ \E a \in Answers, path \in {"abort", "invalid", "create", "pick", "manual", "nodoctl"},
          k \in 1..MaxDroplets, user \in UserInputs : PsStep2(p, a, path, k, user)
    \/ PsSaveCreated(p)
    \/ \E probe \in ProbeResults : PsWaitSsh(p, probe)
    \/ \E ok \in BOOLEAN : PsStep3(p, ok)
    \/ \E got \in {"fresh", "empty", "fail"} : PsStep4(p, got)
    \/ PsSave4(p)
    \/ PsStep5(p)
    \/ PsStep5Return(p)
    \/ \E ok \in BOOLEAN : PsStep6(p, ok)

\* The steps of install.sh in slot p, short of its completion.
ShSteps(p, Resets) ==
    \/ \E reset \in Resets : ShStart(p, reset)
    \/ \E ok \in BOOLEAN : ShStep1(p, ok)
    \/ \E ip \in ManualIPs, user \in UserInputs : ShStep2(p, ip, user)
    \/ \E ok \in BOOLEAN : ShStep3(p, ok)
    \/ \E ok \in BOOLEAN : ShStep4(p, ok)
    \/ ShSave4(p)
    \/ ShStep5(p)
    \/ ShStep5Return(p)

\* Every pre-check of the remote script.
AllPreChecks == UNION {PreChecks(k) : k \in 1..RemoteLastStep}

\* The steps of droplet-setup.sh in the SSH session of slot p. May: the
\* pre-checks that may report their goal state (gcloud's follows from the
\* droplet's packages). Outcomes: the ways a step's body may end.
RemoteSteps(p, May, Outcomes) ==
    \/ \E k \in {1, 2, 3, 4, 6, 7, 8}, outcome \in Outcomes :
          \E pre \in SUBSET (PreChecks(k) \cap (May \cup {"gcloud"})),
             ans \in {"y", "n"} :
              RemoteStep(p, k, pre, ans, outcome)
    \/ \E result \in TestResults, configure \in BOOLEAN,
          result2 \in TestResults, outcome \in {"ok", "fail"} :
          RemoteStep9(p, result, configure, result2, outcome)
    \/ \E pre \in SUBSET (PreChecks(5) \cap May), key \in {""} \cup TsKeys,
          outcome \in {"ok", "fail"} :
          RemoteStep5(p, pre, key, outcome)
    \/ \E choice \in ChannelInputs, token \in {""} \cup TgTokens,
          outcome \in {"ok", "fail"} :
          \E chan \in ChanOutcomes(choice, token) :
              RemoteStep10(p, choice, token, chan, outcome)
    \/ RemoteEnd(p)

\* One operator, one invocation at a time, any inputs, any interruptions.
Next ==
    \/ PsSteps(1, BOOLEAN, {"y", "n"})
    \/ PsEnd(1)
    \/ ShSteps(1, BOOLEAN)
    \/ ShEnd(1)
    \/ RemoteSteps(1, AllPreChecks, {"ok", "fail"})
    \/ Kill(1)
    \/ Drop(1)

Spec == Init /\ [][Next]_vars

\* Checkpoint files as another program, an editor or a disk fault may leave
\* them: absent, empty, unparsable, a record without a step, a record whose
\* step is a word, and (bash) a step such as 1.5.
LocalContents(inst) ==
    IF inst = "ps1"
    THEN {Absent, Empty, Garbage, NoStep,
          File("json", "word", 0, "", "root", "", "", 0)}
    ELSE {Absent, Empty, Garbage, NoStep,
          File("env", "word", 0, "", "root", "", "", 4),
          File("env", "frac", 0, "", "root", "", "", 4)}

RemoteContents ==
    {Absent, Empty,
     File("text", "word", 0, "", "", "", "", 1),
     File("text", "frac", 0, "", "", "", "", 1)}

\* The first invocation finds checkpoint files of any content.
InitLoad ==
    /\ installer \in {"ps1", "sh"}
    /\ lfile \in LocalContents(installer)
    /\ rfile \in RemoteContents
    /\ script = "absent"
    /\ droplets = 0
    /\ apt = FreshImage
    /\ db = EmptyDb
    /\ web = [p \in WebProcs |-> Idle]
    /\ igor = IgorOff
    /\ loc = [p \in Procs |-> LocOff]
    /\ rem = [p \in Procs |-> RemOff]

SpecLoad == InitLoad /\ [][Next]_vars

\* The terminal of slot 1 is taken by a remote script run by hand.
ManualRun == loc[1].pc = "off" /\ rem[1].pc # "off"

\* The installers, with every offered droplet accepted, and the operator also
\* running the remote script by hand, with or without --reset, while no
\* local installer runs. The droplet is one on which every pre-check of the
\* remote script fails. Kills fall inside saves only.
NextRemote ==
    \/ /\ ~ManualRun
       /\ \/ PsSteps(1, BOOLEAN, {"y"})
          \/ PsEnd(1)
          \/ ShSteps(1, BOOLEAN)
          \/ ShEnd(1)
    \/ RemoteSteps(1, {}, {"ok", "fail"})
    \/ Drop(1)
    \/ \E reset \in BOOLEAN : RemoteManual(1, reset)

SpecRemote == Init /\ [][NextRemote]_vars

\* A droplet to which the operator has downloaded the scripts by hand, and on
\* which they run droplet-setup.sh and setup-channels.sh from a terminal; a
\* run of step 6 may also stop between its commands (outcome "cut").
InitChannels ==
    /\ installer \in {"ps1", "sh"}
    /\ lfile = Absent
    /\ rfile = Absent
    /\ script = "fresh"
    /\ droplets = 0
    /\ apt = FreshImage
    /\ db = EmptyDb
    /\ web = [p \in WebProcs |-> Idle]
    /\ igor = IgorOff
    /\ loc = [p \in Procs |-> LocOff]
    /\ rem = [p \in Procs |-> RemOff]

NextChannels ==
    \/ \E reset \in BOOLEAN : RemoteManual(1, reset)
    \/ RemoteSteps(1, AllPreChecks, {"ok", "fail", "cut"})
    \/ Drop(1)
    \/ \E CHOICE \in SetupChoices, BOT_TOKEN \in {""} \cup TgTokens,
          added \in BOOLEAN : SetupChannels(1, CHOICE, BOT_TOKEN, added)

SpecChannels == InitChannels /\ [][NextChannels]_vars

\* install.ps1, one session: never -Reset, every offered droplet accepted, and
\* no run after the one that completes.
InitSession == Init /\ installer = "ps1"

NextSession ==
    \/ PsSteps(1, {FALSE}, {"y"})
    \/ RemoteSteps(1, AllPreChecks, {"ok", "fail"})
    \/ Kill(1)
    \/ Drop(1)

SpecSession == InitSession /\ [][NextSession]_vars

\* Two invocations of the local installer on one operator machine: the first
\* runs its steps, the second is started beside it and gets as far as its
\* first save. The remote script is left out: its SSH session stays open or
\* fails to connect.
NextConc ==
    \/ PsSteps(1, {FALSE}, {"y"})
    \/ PsEnd(1)
    \/ ShSteps(1, {FALSE})
    \/ PsStart(2, FALSE)
    \/ \E outcome \in {"ok", "fail", "decline"} : PsStep1(2, outcome)
    \/ ShStart(2, FALSE)
    \/ \E ok \in BOOLEAN : ShStep1(2, ok)

SpecConc == Init /\ [][NextConc]_vars

\* The website by itself; no installer runs. Seed runs only: the script is
\* started from two terminals, again and again.
InitSite == Init /\ installer = "sh"

NextSeed ==
    \E p \in WebProcs :
        \/ SeedStart(p)
        \/ SeedSelect(p)
        \/ SeedWrite(p)

SpecSeed == InitSite /\ [][NextSeed]_vars

\* The rigs API: requests of any session with any body, two at a time.
NextApi ==
    \E p \in WebProcs :
        \/ \E login \in Logins \cup {NoSession}, body \in Bodies,
              res \in GitHubAnswers : PostRig(p, login, body, res)
        \/ \E fault \in BOOLEAN : PostInsert(p, fault)
        \/ \E login \in Logins \cup {NoSession}, slug \in Slugs :
              DeleteRig(p, login, slug)
        \/ \E fault \in BOOLEAN : DeleteSelect(p, fault)
        \/ \E fault \in BOOLEAN : DeleteRow(p, fault)

SpecApi == InitSite /\ [][NextApi]_vars

\* The Igor installers, run again and again on one target repository.
NextIgor ==
    \/ \E prog \in IgorProgs : IgorStart(prog)
    \/ \E ok \in BOOLEAN, template \in BOOLEAN : IgorFiles(ok, template)
    \/ \E API_KEY \in {"", "sk-ant-1"}, ok \in BOOLEAN : IgorSecret(API_KEY, ok)
    \/ \E listed \in BOOLEAN, others \in BOOLEAN, ok \in BOOLEAN :
          IgorLabel(listed, others, ok)
    \/ \E ok \in BOOLEAN : IgorPermissions(ok)
    \/ \E CREATE_ISSUE \in {"y", "n", ""}, ok \in BOOLEAN :
          IgorIssue(CREATE_ISSUE, ok)
    \/ IgorDone

SpecIgor == InitSite /\ [][NextIgor]_vars

\* install.ps1 invoked again and again without -Reset: each command succeeds
\* or fails, each prompt is answered with an answer that goes on or with one
\* that ends the run, and the droplet is created or its address typed in.
LiveLocal ==
    \/ PsStart(1, FALSE)
    \/ \E outcome \in {"ok", "fail", "decline"} : PsStep1(1, outcome)
    \/ \E a \in {"y", "n"}, path \in {"abort", "create", "manual"} :
          PsStep2(1, a, path, 1, "")
    \/ PsSaveCreated(1)
    \/ \E probe \in {"ready", "unreachable"} : PsWaitSsh(1, probe)
    \/ \E ok \in BOOLEAN : PsStep3(1, ok)
    \/ \E got \in {"fresh", "fail"} : PsStep4(1, got)
    \/ PsSave4(1)
    \/ PsStep5(1)
    \/ PsStep5Return(1)
    \/ \E ok \in BOOLEAN : PsStep6(1, ok)
    \/ PsEnd(1)

\* droplet-setup.sh in the SSH session of step 5: each step succeeds or fails;
\* the smoke test passes, Tailscale and the channels are skipped.
LiveRemote ==
    \/ \E k \in {1, 2, 3, 4, 6, 7, 8}, outcome \in {"ok", "fail"} :
          \E pre \in SUBSET (PreChecks(k) \cap {"gcloud"}), ans \in {"y", "n"} :
              RemoteStep(1, k, pre, ans, outcome)
    \/ \E result \in {"", "Hello to you"} :
          RemoteStep9(1, result, FALSE, "", "ok")
    \/ \E outcome \in {"ok", "fail"} : RemoteStep5(1, {}, "", outcome)
    \/ \E choice \in {"4", "7"} : RemoteStep10(1, choice, "", NoChan, "ok")
    \/ RemoteEnd(1)

NextLive ==
    \/ LiveLocal
    \/ LiveRemote
    \/ Kill(1)
    \/ Drop(1)

\* The operator invokes the installer whenever it is not running and both
\* scripts execute their next statement (weak fairness); a command that is
\* attempted again and again eventually succeeds and a prompt that is shown
\* again and again is eventually answered with an answer that goes on (strong
\* fairness of the succeeding outcome of each step that may fail or be
\* declined).
FairLive ==
    /\ WF_vars(LiveLocal)
    /\ WF_vars(LiveRemote)
    /\ SF_vars(PsStep1(1, "ok"))
    /\ SF_vars(\E a \in {"y", "n"}, path \in {"abort", "create", "manual"} :
                   PsStep2(1, a, path, 1, "") /\ loc'[1].pc # "off")
    /\ SF_vars(PsWaitSsh(1, "ready"))
    /\ SF_vars(PsStep3(1, TRUE))
    /\ SF_vars(PsStep4(1, "fresh"))

SpecLive == InitSession /\ [][NextLive]_vars /\ FairLive

\* droplet-setup.sh run on the droplet again and again, with and without
\* --reset, up to step 4, with step 3 statement by statement, sessions cut at
\* any point and reboots.
NextSwap ==
    \/ \E reset \in BOOLEAN : RemoteManual(1, reset)
    \/ \E k \in {1, 2, 4}, outcome \in {"ok", "fail"}, ans \in {"y", "n"} :
          RemoteStep(1, k, {}, ans, outcome)
    \/ \E ram \in BOOLEAN, ans \in {"y", "n"} : SwapCheck(1, ram, ans)
    \/ \E ok \in BOOLEAN : SwapCommand(1, ok)
    \/ SwapSave(1)
    \/ Drop(1)
    \/ \E cleared \in BOOLEAN : Reboot(cleared)
    \/ FetchScript

SpecSwap == InitChannels /\ [][NextSwap]_vars

(***************************************************************************)
(* Properties.                                                             *)
(***************************************************************************)
\* The steps a local invocation is to execute when it resumes from step i.
StepsAfter(inst, i) == (i + 1)..LastStep(inst)

\* C1, as stated: a local invocation that resumes from persisted step i prints
\* the header of no step in 1..i, so executes none of their commands again, and
\* one that reaches the completion banner has executed exactly steps i+1..n.
ResumeSkipsCompleted ==
    \A p \in Procs :
        loc[p].loadedKind = "num" =>
            /\ loc[p].narr \subseteq StepsAfter(installer, loc[p].loaded)
            /\ loc[p].banner => loc[p].narr = StepsAfter(installer, loc[p].loaded)

\* The steps install.ps1 executes from step i: its steps 4 and 5 share the one
\* guard ($CurrentStep -lt 5), so from i = 4 the download of step 4 runs again.
StepsFrom(inst, i) ==
    IF inst = "ps1" /\ i = 4 THEN 4..PsLastStep ELSE StepsAfter(inst, i)

\* C1, amended: a local invocation that resumes from persisted step i executes
\* no step of 1..i again and, when it completes, exactly steps i+1..n; except
\* that install.ps1 resumed from step 4 downloads the setup script (step 4)
\* again before it runs step 5.
ResumeSkipsCompletedButDownload ==
    \A p \in Procs :
        loc[p].loadedKind = "num" =>
            /\ loc[p].narr \subseteq StepsFrom(installer, loc[p].loaded)
            /\ loc[p].banner => loc[p].narr = StepsFrom(installer, loc[p].loaded)

\* install.ps1 resumed from step 4 and completed: it ran steps 4, 5 and 6.
ResumedFromFourCompleted ==
    \E p \in Procs :
        /\ installer = "ps1"
        /\ loc[p].banner
        /\ loc[p].loaded = 4
        /\ loc[p].narr = {4, 5, 6}

\* C2: the step a load reads from a checkpoint file never decreases from one
\* state to the next, in the local file and in the droplet's, save when the
\* local file is removed (-Reset, or the clear that ends the session).
PersistedStepMonotone ==
    [][/\ lfile'.kind # "absent"
          => Load(installer, lfile').CurrentStep
                 >= Load(installer, lfile).CurrentStep
       /\ remote_load_checkpoint(rfile').step
              >= remote_load_checkpoint(rfile).step]_vars

\* Between complete records the step does not decrease: the saves, in the order
\* the scripts make them, never write a lower step over a higher one.
StepNeverDecreases ==
    [][/\ HasStep(lfile) /\ HasStep(lfile') => lfile'.Step >= lfile.Step
       /\ HasStep(rfile) /\ HasStep(rfile') => rfile'.Step >= rfile.Step]_vars

\* C3: when a step aborts or is interrupted, the step a load reads from the
\* file is the one it read before, in the local file and in the droplet's.
AbortKeepsStep ==
    [][\A p \in Procs :
          /\ (/\ loc[p].pc # "off"
              /\ loc'[p].pc = "off"
              /\ loc'[p].exit \in {"1", "killed"})
             => Load(installer, lfile').CurrentStep
                    = Load(installer, lfile).CurrentStep
          /\ (/\ rem[p].pc # "off"
              /\ rem'[p].pc = "off"
              /\ rem'[p].exit \in {"1", "255"})
             => remote_load_checkpoint(rfile').step
                    = remote_load_checkpoint(rfile).step]_vars

\* C4: once the remote script's failure has been reported, the local file does
\* not hold step 5 or a later step.
RemoteFailureHoldsStep ==
    \A p \in Procs :
        "remote" \in loc[p].warn => ~(HasStep(lfile) /\ lfile.Step >= 5)

\* C5: a run that reported a failed remote script or a failed verification
\* leaves the local checkpoint file in place when it ends.
FailedRunKeepsCheckpoint ==
    \A p \in Procs :
        (loc[p].exit # "none" /\ loc[p].warn # {}) => lfile.kind # "absent"

\* C6: whatever the moment a save is interrupted, each checkpoint file is
\* absent or holds one complete record.
SaveIsAtomic ==
    /\ \/ lfile.kind \in {"absent", "json"}
       \/ lfile.kind = "env" /\ lfile.lines = 4
    /\ rfile.kind \in {"absent", "text"}


\* C7: whatever the checkpoint files hold, no run ends at the load, and every
\* run works from a step number: the valid recorded step, or 0.
LoadFailsSoft ==
    \A p \in Procs :
        /\ loc[p].exit # "127"
        /\ loc[p].loadedKind = "num"
        /\ rem[p].stepKind = "num"

\* C8: an invocation starts only while no other is running, and no save
\* lowers the step on file.
SecondInvocationRefused ==
    [][/\ \A p \in Procs :
             (loc[p].pc = "off" /\ loc'[p].pc # "off")
                 => \A q \in Procs \ {p} : loc[q].pc = "off"
       /\ HasStep(lfile) /\ HasStep(lfile') => lfile'.Step >= lfile.Step]_vars

\* C9: within one session, without -Reset and with every offered droplet
\* accepted, `doctl compute droplet create` succeeds at most once.
DropletCreatedOnce == droplets <= 1

\* The texts a checkpoint file holds beside its step.
FileTexts(f) == {f.DropletIP, f.SSHUser, f.DropletId, f.DropletName}

ResetClearsOneSession ==
    [][\A p \in Procs :
          /\ (loc[p].pc = "off" /\ loc'[p].pc # "off" /\ loc'[p].Reset)
             => /\ loc'[p].CurrentStep = 0 /\ loc'[p].stepKind = "num"
                /\ loc'[p].DropletIP = "" /\ loc'[p].DropletId = ""
                /\ loc'[p].DropletName = ""
                /\ lfile'.kind = "absent"
                /\ rfile' = rfile
          /\ (rem[p].pc = "off" /\ rem'[p].pc # "off" /\ rem'[p].reset)
             => /\ rem'[p].CURRENT_STEP = 0 /\ rem'[p].stepKind = "num"
                /\ rfile'.kind = "absent"
                /\ lfile' = lfile]_vars

\* A run started with the reset flag is at its first step although a droplet
\* had been created and the droplet's file holds a step.
ResetAfterProgress ==
    \E p \in Procs :
        /\ loc[p].Reset /\ loc[p].pc = "s1"
        /\ droplets >= 1
        /\ HasStep(rfile) /\ rfile.Step >= 1

\* A remote run was started by hand with --reset while the local file held
\* step 4 and a droplet address.
RemoteResetAfterProgress ==
    \E p \in Procs :
        /\ rem[p].reset /\ rem[p].pc = "r1"
        /\ HasStep(lfile) /\ lfile.Step >= 4 /\ lfile.DropletIP # ""

\* C12: a local installer that exits with status 0 has completed every step:
\* it printed the completion banner and no warning of a failed remote setup or
\* a failed verification.
ExitZeroMeansComplete ==
    \A p \in Procs :
        loc[p].exit = "0" => loc[p].banner /\ loc[p].warn = {}

\* C13: when the smoke test of remote step 9 prints text that is neither a
\* greeting nor an error, or the verification of local step 6 fails, the
\* step is not saved: the file stays below that step.
AmbiguousOutputHolds ==
    \A p \in Procs :
        /\ rem[p].TEST_RESULT = "Killed" => ~(HasStep(rfile) /\ rfile.Step >= 9)
        /\ "verify" \in loc[p].warn => ~(HasStep(lfile) /\ lfile.Step >= 6)

\* C14: when the operator skips the Tailscale connection with an empty auth
\* key, remote step 5 is not saved: the droplet's file stays below step 5.
SkipHoldsStep ==
    \A p \in Procs :
        rem[p].ts_key = "" => ~(HasStep(rfile) /\ rfile.Step >= 5)

\* The commands a pre-check stands in front of. The OpenClaw pre-check of
\* step 7 guards nothing: with OpenClaw present the operator is asked whether
\* to reinstall.
Guarded(c) ==
    CASE c = "swap" -> {"mkswap"}
      [] c = "ram" -> {"mkswap"}
      [] c = "node22" -> {"nodesource"}
      [] c = "tailscale" -> {"install tailscale"}
      [] c = "connected" -> {"tailscale up"}
      [] c = "gcloud" -> {"install gcloud"}
      [] c = "gog" -> {"install gog"}
      [] c = "keyring" -> {"gog auth keyring file"}
      [] c = "onboarded" -> {"openclaw onboard"}
      [] OTHER -> {}

BridgeExitZeroAdvances ==
    [][\A p \in Procs :
          /\ loc[p].pc = "s5run" /\ rem[p].pc = "off" /\ rem[p].exit = "0"
          /\ loc'[p] # loc[p]
          /\ loc'[p].exit # "killed"
          => /\ loc'[p].CurrentStep = 5 /\ loc'[p].stepKind = "num"
             /\ HasStep(lfile') /\ lfile'.Step = 5]_vars

\* C16 witness: the session ended with 0, step 5 is saved locally, and the
\* remote checkpoint is not at the last remote step.
AdvancedWithRemoteBehind ==
    \E p \in Procs : /\ loc[p].sshExitCode = "0"
                     /\ loc[p].CurrentStep = 5
                     /\ HasStep(lfile) /\ lfile.Step = 5
                     /\ ~(HasStep(rfile) /\ rfile.Step = RemoteLastStep)

\* The remote step a running remote script stands before (11 after step 10),
\* and the last remote step completed: the later of the step it resumed from
\* and the step before its position.
RemoteAt(r) ==
    IF r.pc = "rend" THEN RemoteLastStep + 1
    ELSE CHOOSE k \in 1..RemoteLastStep : RPc(k) = r.pc

LastCompleted(r) ==
    IF RemoteAt(r) - 1 > r.CURRENT_STEP THEN RemoteAt(r) - 1
    ELSE r.CURRENT_STEP

\* The remote script starts from the remote checkpoint file and its --reset
\* flag alone: the step it resumes from is the one read from that file (0
\* after --reset), nothing of the local checkpoint enters it, the step does not
\* change while the script runs, and a remote step writes the remote file
\* exactly when its number is above the step resumed from.
RemoteStepsFromRemoteFile ==
    [][\A p \in Procs :
          /\ rem[p].pc = "off" /\ rem'[p].pc = "r1"
             => LET ld == remote_load_checkpoint(ResetFile(rem'[p].reset, rfile))
                IN rem'[p].CURRENT_STEP = ld.step /\ rem'[p].stepKind = ld.kind
          /\ rem[p].pc \notin {"off"} /\ rem'[p].pc \notin {"off"}
             => /\ rem'[p].CURRENT_STEP = rem[p].CURRENT_STEP
                /\ rem'[p].pc # rem[p].pc /\ rem[p].stepKind = "num"
                   => rfile' = IF rem[p].CURRENT_STEP < RemoteAt(rem[p])
                               THEN remote_save_checkpoint(RemoteAt(rem[p]))
                               ELSE rfile]_vars

\* C17: the remote script's steps follow from the remote checkpoint file and
\* --reset alone, whatever the local checkpoint is, and when the remote
\* session ends with a non-zero status the remote checkpoint file holds the
\* last completed remote step.
RemoteIndependentOfLocal ==
    [][\A p \in Procs :
          /\ rem[p].pc = "off" /\ rem'[p].pc = "r1"
             => rem'[p].CURRENT_STEP =
                   remote_load_checkpoint(ResetFile(rem'[p].reset, rfile)).step
          /\ /\ rem[p].pc \notin {"off"} /\ rem[p].stepKind = "num"
             /\ rem'[p].pc = "off" /\ rem'[p].exit \notin {"0", "none"}
             => remote_load_checkpoint(rfile').step = LastCompleted(rem[p])]_vars

\* C18: a fixed-option prompt goes on with a listed option only, and an answer
\* that is not on the list never ends the run: step 10 never goes on with a
\* channel answer outside 1-4, and no installer run has ended on "Invalid
\* selection".
MenuRequiresValidSelection ==
    \A p \in Procs :
        /\ rem[p].channel_choices \in {"unset", "1", "2", "3", "4"}
        /\ "invalid" \notin loc[p].warn

\* C19: an empty answer at a secret prompt is a skip: after an empty Tailscale
\* auth key droplet-setup.sh is running its following steps, and no script has
\* exited with a failure status on an empty answer at its bot token prompt.
EmptySecretContinues ==
    \A p \in Procs :
        /\ rem[p].ts_key = "" =>
               rem[p].pc \in {"rend"} \cup {RPc(j) : j \in 6..RemoteLastStep}
        /\ ~(/\ rem[p].exit = "1"
             /\ rem[p].channel_choices = "2"
             /\ rem[p].tg_token = "")

\* C20: the wait-for-SSH loop tells a rejected key from a host that is not
\* reachable yet: after a probe that was rejected the loop is not waiting for
\* another attempt.
ProbeSeparatesRejected ==
    \A p \in Procs : loc[p].probe = "rejected" => loc[p].pc # "s2wait"

\* C21: a channel gets an OK line, and a place under "Channels configured",
\* only if its configure command exited successfully.
NoSuccessReportOnFailure ==
    \A p \in Procs :
        (rem[p].chan.okLines \cup CONFIGURED_LIST(rem[p]))
            \cap rem[p].chan.failed = {}

\* C23: within one run of the Gmail part `openclaw webhooks gmail setup` is
\* invoked at most once (the script never asks the operator about a retry).
GmailSetupInvokedOnce ==
    \A p \in Procs : rem[p].chan.calls <= 1

\* C24: when the script is about to print "Setup finished (no channels
\* configured) ... Run this script again and select channels to configure",
\* the checkpoint on file lets a further run without --reset enter step 10
\* and reach its prompt.
RerunReachesChannelPrompt ==
    \A p \in Procs :
        rem[p].pc = "rend" /\ CONFIGURED_LIST(rem[p]) = {}
        => remote_load_checkpoint(rfile).step < RemoteLastStep

\* C26: after a failed gcloud authentication none of the later Gmail
\* sub-steps (3 to 6) is begun in that run.
GcloudAuthFailureStopsGmail ==
    \A p \in Procs :
        rem[p].chan.gauth = "fail" => rem[p].chan.gsteps \cap 3..6 = {}

\* C25: choice 4 of setup-channels.sh runs the WhatsApp, Telegram and Gmail
\* setups one after the other: all three child runs are started and each
\* gets to its channel's configure command.
AllChannelsRunsEachSetup ==
    \A p \in Procs :
        rem[p].prog = "setup-channels.sh" /\ rem[p].channel_choices = "4"
        => /\ rem[p].chan.children = {"1", "2", "3"}
           /\ rem[p].chan.calls = 3

\* A local invocation prints the header of step k in this transition.
BeginsStep(p, k) == k \in loc'[p].narr /\ k \notin loc[p].narr

\* C30: the body of step i+1 begins only when a save of step i (or later) has
\* completed in this execution, which the checkpoint file then shows, or a
\* checkpoint of step i or later was loaded at startup; in the local
\* installer and in the remote script.
PersistBeforeProceed ==
    [][/\ \A p \in Procs, k \in 2..6 :
              BeginsStep(p, k) =>
                  \/ loc[p].loaded >= k - 1
                  \/ HasStep(lfile) /\ lfile.Step >= k - 1
       /\ \A p \in Procs, k \in 2..RemoteLastStep :
              AboutToRun(p, k) =>
                  \/ rem[p].CURRENT_STEP >= k - 1
                  \/ HasStep(rfile) /\ rfile.Step >= k - 1]_vars

\* Both scripts are past steps whose saves were made in this execution: the
\* local installer started from nothing and is in step 5, the remote script
\* started from nothing and is about to run step 4.
ProceededOnOwnSaves ==
    \E p \in Procs :
        /\ loc[p].pc # "off" /\ loc[p].loaded = 0 /\ 5 \in loc[p].narr
        /\ AboutToRun(p, 4) /\ rem[p].CURRENT_STEP = 0

\* C22: re-running remote step 6 after an interruption in its middle does not
\* duplicate its side effect: google-cloud-sdk.list never holds more than one
\* Cloud SDK line.
SdkLineAppendedOnce == apt.lines <= 1

\* The rigs table after one run of the seed script on an empty database.
SeededOnce ==
    Insert(Insert(EmptyDb, seedRigs[1].slug, seedRigs[1].name,
                  seedRigs[1].submittedBy),
           seedRigs[2].slug, seedRigs[2].name, seedRigs[2].submittedBy).rows

\* No seed run is in progress and one has completed; Sequential: all runs
\* were made from one terminal, one after the other.
SeedRunsOver(w) ==
    /\ \A p \in WebProcs : w[p].op = "idle"
    /\ \E p \in WebProcs : w[p].runs >= 1
Sequential(w) == \A p \in WebProcs : p # 1 => w[p].runs = 0

\* One row per seed slug and no other row.
OneRowPerSeedSlug(rows) ==
    /\ \A r, q \in rows : r.slug = q.slug => r = q
    /\ {r.slug : r \in rows} = {seedRigs[i].slug : i \in 1..Len(seedRigs)}

\* The rows without their updatedAt column.
ButUpdatedAt(rows) == {[r EXCEPT !.updatedAt = 0] : r \in rows}

\* C27, as stated: any number of runs of the seed script, one after the
\* other, leaves the rigs table that one run leaves, and completed runs,
\* interleaved or not, leave one row per seed slug.
SeedRunsLeaveSameTable ==
    SeedRunsOver(web) =>
        /\ OneRowPerSeedSlug(db.rows)
        /\ Sequential(web) => db.rows = SeededOnce

\* The seed's guarantees in a state: never two rows of one slug; after
\* completed runs one row per seed slug; after sequential runs the table of
\* one run in every column but updatedAt.
SeedState(d, w) ==
    /\ \A r, q \in d.rows : r.slug = q.slug => r = q
    /\ SeedRunsOver(w) =>
           /\ OneRowPerSeedSlug(d.rows)
           /\ Sequential(w) => ButUpdatedAt(d.rows) = ButUpdatedAt(SeededOnce)

\* C27, amended: the seed script is safe to run multiple times. Runs one
\* after the other leave the table of a single run in every column but
\* updatedAt, which each run sets anew; runs interleaved on one database
\* leave one row per seed slug; and a row that a statement of the script
\* finds is left with its id, submittedBy, submittedByAvatar and createdAt.
SeedRunsLeaveSameRows ==
    [][/\ SeedState(db, web) /\ SeedState(db', web')
       /\ \A r \in db.rows :
              \E q \in db'.rows :
                  /\ q.id = r.id /\ q.slug = r.slug
                  /\ q.submittedBy = r.submittedBy
                  /\ q.submittedByAvatar = r.submittedByAvatar
                  /\ q.createdAt = r.createdAt]_vars

\* Two interleaved seed runs are over: an insert of one was rejected by the
\* unique index and logged, and a row has been updated by the other run.
InterleavedSeedsDone ==
    /\ \A p \in WebProcs : web[p].op = "idle" /\ web[p].runs = 1
    /\ \E p \in WebProcs : web[p].errors # {}
    /\ \E r \in db.rows : r.updatedAt > r.createdAt

\* The slot whose request or run takes this step.
Acts(p) == web'[p] # web[p]

\* C28: DELETE /api/rigs/[slug] removes a rig only for an authenticated
\* requester who is the rig's submitter: every row that leaves the table is
\* removed by a DELETE request whose session login is the row's submittedBy,
\* and a step that answers 401, 404 or 403 leaves the table as it was.
DeleteRemovesOwnRigOnly ==
    [][\A p \in WebProcs :
          Acts(p) =>
              /\ \A r \in db.rows \ db'.rows :
                     /\ web[p].op = "DELETE"
                     /\ web[p].login # NoSession
                     /\ r.submittedBy = web[p].login
              /\ web'[p].status \in {"401", "404", "403"} => db' = db]_vars

\* The checks a POST request has passed when it gets to its insert.
AllChecks == <<"auth", "schema", "github">>

\* C29: POST /api/rigs inserts a row only after the session check, the schema
\* and the GitHub repository check passed, in that order: 401 is answered
\* before any check passed, 400 after the session check alone, 422 after the
\* session and schema checks, none of them with a change of the table; the
\* insert is made by a request that passed all three, adds one row with the
\* request's name, slug and login, and when the table holds the slug derived
\* from the name it answers 409 and leaves the table's rows as they were.
PostInsertsAfterChecks ==
    [][\A p \in WebProcs :
          Acts(p) /\ web[p].op \in {"idle", "POST"} /\ web'[p].op # "DELETE" =>
              /\ web'[p].status = "401" => web'[p].checks = <<>> /\ db' = db
              /\ web'[p].status = "400" =>
                     web'[p].checks = <<"auth">> /\ db' = db
              /\ web'[p].status = "422" =>
                     web'[p].checks = <<"auth", "schema">> /\ db' = db
              /\ db'.rows # db.rows =>
                     /\ web[p].op = "POST" /\ web[p].checks = AllChecks
                     /\ Len(web[p].name) >= 1
                     /\ web'[p].status = "201"
                     /\ \E r \in db'.rows :
                            /\ db'.rows = db.rows \cup {r}
                            /\ r.slug = nameToSlug(web[p].name)
                            /\ r.name = web[p].name
                            /\ r.submittedBy = web[p].login
              /\ web[p].pc = "insert" /\ web'[p].status # "500" =>
                     IF \E r \in db.rows : r.slug = nameToSlug(web[p].name)
                     THEN web'[p].status = "409" /\ db'.rows = db.rows
                     ELSE web'[p].status = "201"]_vars

\* A request whose name is "igor!" has been answered 409 while the table
\* holds the rig named "Igor": two names with one slug.
SecondNameOfSlugRefused ==
    \E p \in WebProcs :
        /\ web[p].status = "409" /\ web[p].name = IgorBang
        /\ \E r \in db.rows : r.name = Igor /\ r.slug = nameToSlug(IgorBang)

\* The next invocation of install.ps1 offers the droplet of checkpoint f at
\* "Use this droplet? (y/n)" (lines 260-266).
OffersDroplet(f) ==
    LET ld == LoadCheckpoint(f)
    IN /\ ld.stepKind = "num" /\ ld.CurrentStep < 2
       /\ ld.DropletIP # "" /\ ld.DropletId # ""

\* C31: the wait for SSH after a droplet's creation is bounded. A probe is
\* made only while fewer than maxAttempts were made; a probe that is not the
\* last either ends step 2 with its save (ready) or leaves the loop waiting
\* with the checkpoint untouched; the last probe, when it fails, exits 1 with
\* the checkpoint at step 1 holding the droplet's address, id and name, which
\* the next invocation offers.
WaitForSshBounded ==
    [][\A p \in Procs :
          loc[p].pc = "s2wait" /\ loc'[p] # loc[p]
              /\ loc'[p].exit # "killed" =>
          /\ loc[p].attempt < maxAttempts
          /\ \/ /\ loc'[p].pc = "s3"
                /\ HasStep(lfile') /\ lfile'.Step = 2
             \/ /\ loc'[p].pc = "s2wait"
                /\ loc'[p].attempt = loc[p].attempt + 1
                /\ loc'[p].attempt < maxAttempts
                /\ lfile' = lfile
             \/ /\ loc'[p].pc = "off" /\ loc'[p].exit = "1"
                /\ loc[p].attempt = maxAttempts - 1
                /\ HasStep(lfile') /\ lfile'.Step = 1
                /\ lfile'.DropletIP = loc[p].DropletIP
                /\ lfile'.DropletId = loc[p].DropletId
                /\ lfile'.DropletName = loc[p].DropletName
                /\ lfile'.DropletName # ""
                /\ OffersDroplet(lfile')]_vars

\* An invocation started without a checkpoint has created a droplet, has
\* given up waiting for it and has exited 1 with the droplet on file.
WaitGaveUp ==
    \E p \in Procs :
        /\ loc[p].pc = "off" /\ loc[p].exit = "1"
        /\ loc[p].loaded = 0 /\ loc[p].narr = {1, 2}
        /\ OffersDroplet(lfile) /\ lfile.Step = 1

\* C32: the transfer of the setup script is an idempotent overwrite: whatever
\* /tmp/openclaw-setup.sh held before, a transfer step that succeeds (the
\* installer goes on to the save of step 4) leaves the fetched script body in
\* it.
TransferOverwrites ==
    [][\A p \in Procs :
          loc[p].pc \in {"s45", "s4"} /\ loc'[p].pc = "s4dl"
              => script' = "fresh"]_vars

\* C33: in the Igor installers a failing non-critical action is a warning and
\* the run goes on to its closing banner: a run that ends without a FAIL line
\* has printed the banner; and the label is not created again: `gh label
\* create` is invoked only when the repository does not hold the label.
IgorNonCriticalFailuresWarn ==
    [][/\ igor.pc # "off" /\ igor'.pc = "off" /\ "FAIL" \notin igor'.warn
          => igor'.banner
       /\ "label create" \in igor'.ran /\ "label create" \notin igor.ran
          => ~igor.label]_vars

\* A step in which the local installer is interrupted: killed while it runs,
\* possibly inside a save.
Interrupted == loc[1].pc # "off" /\ loc'[1].exit = "killed"

\* The completion banner has been printed by a run that ended with exit code 0
\* and the local checkpoint file is absent.
Completed == loc[1].banner /\ loc[1].exit = "0" /\ lfile = Absent

\* C34: eventual completion across interruptions: when the interruptions are
\* finitely many, every command eventually succeeds and every prompt is
\* eventually answered with a continuing answer, invoking install.ps1 again and
\* again without -Reset eventually reaches the completion banner with the local
\* checkpoint file absent.
EventualCompletion == <>[][~Interrupted]_vars => <>Completed

\* A run that resumed from a checkpoint left by an interrupted or failed run
\* has reached the banner and cleared the file.
ResumedRunCompleted ==
    Completed /\ loc[1].loaded >= 2 /\ 1 \notin loc[1].narr /\ droplets = 1

\* C35: target presence: in every reachable state, states left by a crash
\* inside a save included, a local checkpoint whose step is 2 or more carries a
\* non-empty droplet address, and no run that resumed from such a step goes to
\* its SSH steps with an empty address.
TargetPresent ==
    /\ HasStep(lfile) /\ lfile.Step >= 2 => lfile.DropletIP # ""
    /\ \A p \in Procs :
          loc[p].pc \notin {"off", "s1", "s2"} /\ loc[p].loaded >= 2
              => loc[p].DropletIP # ""

\* The target of a checkpoint record: address, SSH user, droplet id and name.
Target(f) == <<f.DropletIP, f.SSHUser, f.DropletId, f.DropletName>>

\* C36: the target fields are framed after step 2: every save of install.ps1
\* that writes a record of step 3, 4, 5 or 6, in the invocation that completed
\* step 2 or in one that resumed, replaces a record of step 2 or more that
\* holds the same droplet address, SSH user, droplet id and droplet name; the
\* step alone changes (the record has no other field than the timestamp).
TargetFramed ==
    [][installer = "ps1" /\ lfile' # lfile /\ lfile'.kind = "json"
           /\ lfile'.Step >= 3
       => /\ lfile.kind = "json" /\ lfile.stepKind = "num"
          /\ lfile.Step >= 2 /\ lfile.Step < lfile'.Step
          /\ Target(lfile') = Target(lfile)
          /\ lfile' = [lfile EXCEPT !.Step = lfile'.Step]]_vars

\* A resumed invocation of install.ps1 has saved a later step for a droplet
\* reached with a user name typed in at step 2.
ResumedSaveKeptTarget ==
    /\ installer = "ps1"
    /\ loc[1].pc # "off" /\ loc[1].loaded >= 2
    /\ lfile.kind = "json" /\ lfile.Step > loc[1].loaded
    /\ lfile.SSHUser = "bob" /\ lfile.DropletIP = "ipX"

\* C37: the swap configuration is applied at most once: over any sequence of
\* interruptions inside remote step 3, reboots and re-runs of the remote
\* script, /etc/fstab holds at most one /swapfile line, and once the script has
\* reported the swap as active no swap-creating command (fallocate, mkswap,
\* swapon) is run again.
SwapAppliedOnce ==
    [][/\ apt'.fstab <= 1
       /\ (\E c \in {"fallocate", "mkswap", "swapon"} :
              c \in rem'[1].ran /\ c \notin rem[1].ran) => ~apt.told]_vars

====
